---- MODULE Spec2Model ----
(***************************************************************************)
(* Tick-driven delivery simulator and dispatch engine                      *)
(* (src/src/simulation.py, src/src/dispatch.py, src/src/scoring.py).       *)
(*                                                                         *)
(* Units.  Time is in whole minutes since START_TIME (17:00:00 = 0).       *)
(* A location is a point <<x, y>> of an integer grid whose unit is the     *)
(* distance travelled in one minute at AVG_SPEED_KMH (35/60 km = 7/12 km), *)
(* and the distance between two points is their grid distance.  Costs are  *)
(* kept exact by scaling (see calculate_trip_cost).                        *)
(* On grid points _round_loc is the identity.  The TSP cache is keyed by   *)
(* the SET of order ids, so a hit may return the route computed for        *)
(* another ordering of the same orders; the cache of a dispatch call is    *)
(* carried through that call's route computations.                         *)
(***************************************************************************)
EXTENDS Integers, Sequences, FiniteSets, TLC

\* ---------------------------------------------------------------- bounds
NumOrders == 3
NumDrivers == 2
MaxCapacity == 3
LateShift == 4

\* ------------------------------------------------------ program constants
SIMULATION_END_TIME == 300
SIMULATION_SPEED_MINUTES == 1
SERVICE_TIME_MINS == 5
MAX_DELIVERY_TIME_MINS == 52
MAX_BUNDLE_SIZE == 2
BATCH_WINDOW_MINS == 1
COMBINATORIAL_WINDOW_MINS == 5
HIGH_LOAD_THRESHOLD == 2
MaxDelayCap == 20
MaxSplitDepth == 5
\* MAX_PICKUP_DISTANCE_KM = 5.0 km = 60/7 grid units: dist <= 5 km iff 7 * dist <= 60
MaxPickupDistTimes7 == 60
\* optional time stamps (pickup_time, dropoff_time, batch_start_time): None
NoTime == -1
\* float('inf')
INF == 100000000

VARIABLES strategy, current_time, orders, drivers, master_orders_list,
          pending_orders, completed_missions, total_distance_traveled,
          total_busy_driver_ticks, total_driver_ticks, drivers_activated,
          recent_order_times, batch_start_time, assigned_in_tick,
          distance_in_tick, invoked_in_tick, pc, call, tsp_cache

vars == <<strategy, current_time, orders, drivers, master_orders_list,
          pending_orders, completed_missions, total_distance_traveled,
          total_busy_driver_ticks, total_driver_ticks, drivers_activated,
          recent_order_times, batch_start_time, assigned_in_tick,
          distance_in_tick, invoked_in_tick, pc, call, tsp_cache>>

\* call: the last direct call of one of the module-level functions (its arguments and
\* its result); a run of the simulator makes none
NoCall == [fn |-> "none"]

OrderIds == DOMAIN orders
DriverIds == DOMAIN drivers
Strategies == {"baseline", "sequential", "combinatorial", "adaptive"}

\* ------------------------------------------------------- sequence helpers
Abs(x) == IF x < 0 THEN -x ELSE x

Range(s) == {s[i] : i \in DOMAIN s}

Contains(s, x) == \E i \in DOMAIN s : s[i] = x

\* list.remove(x): drops the first occurrence
RECURSIVE RemoveFirst(_, _)
RemoveFirst(s, x) ==
  IF s = <<>> THEN <<>>
  ELSE IF Head(s) = x THEN Tail(s)
  ELSE <<Head(s)>> \o RemoveFirst(Tail(s), x)

\* "if x in s: s.remove(x)"
RemoveIfPresent(s, x) == RemoveFirst(s, x)

RECURSIVE RemoveAll(_, _)
RemoveAll(s, xs) ==
  IF xs = <<>> THEN s ELSE RemoveAll(RemoveIfPresent(s, Head(xs)), Tail(xs))

Count(s, x) == Cardinality({i \in DOMAIN s : s[i] = x})

\* ------------------------------------------------------------- utils.py
get_distance(a, b) == Abs(a[1] - b[1]) + Abs(a[2] - b[2])

calculate_travel_time_minutes(dist) == dist

get_travel_time(a, b) == calculate_travel_time_minutes(get_distance(a, b))

add_minutes_to_time(t, m) == t + m

\* ------------------------------------------------------------- models.py
PickupStop(os, o) == [location |-> os[o].pickup_loc, stop_type |-> "PICKUP", order_id |-> o]
DropoffStop(os, o) == [location |-> os[o].dropoff_loc, stop_type |-> "DROPOFF", order_id |-> o]

NewOrder(p, d, c, e) ==
  [pickup_loc |-> p, dropoff_loc |-> d, created_time |-> c,
   estimated_delivery_time_min |-> e, deadline |-> c + e,
   status |-> "PENDING", pickup_time |-> NoTime, dropoff_time |-> NoTime]

NewDriver(loc, veh, cap, avail) ==
  [start_loc |-> loc, vehicle_type |-> veh, capacity |-> cap, available_from |-> avail,
   current_loc |-> loc, status |-> "IDLE", assigned_orders |-> <<>>, route |-> <<>>,
   current_stop_index |-> -1, arrival_time_at_next_stop |-> avail]

\* ------------------------------------------------------ Simulation.__init__
\* sorted(orders, key=created_time): a stable sort of the order ids
RECURSIVE InsertByCreated(_, _, _)
InsertByCreated(os, s, o) ==
  IF s = <<>> THEN <<o>>
  ELSE IF os[Head(s)].created_time <= os[o].created_time
       THEN <<Head(s)>> \o InsertByCreated(os, Tail(s), o)
       ELSE <<o>> \o s

RECURSIVE SortedByCreated(_, _)
SortedByCreated(os, n) ==
  IF n = 0 THEN <<>> ELSE InsertByCreated(os, SortedByCreated(os, n - 1), n)

\* ------------------------------------------------ dispatch.find_optimal_route
\* variant that plans a PICKUP for every order, in the vehicle or not
RECURSIVE AllStops_AlwaysPickup(_, _, _)
AllStops_AlwaysPickup(os, ords, picked) ==
  IF ords = <<>> THEN <<>>
  ELSE <<PickupStop(os, Head(ords)), DropoffStop(os, Head(ords))>>
       \o AllStops_AlwaysPickup(os, Tail(ords), picked)

\* all_stops: per order, its PICKUP unless already in the vehicle, then its DROPOFF
RECURSIVE AllStops(_, _, _)
AllStops(os, ords, picked) ==
  IF ords = <<>> THEN <<>>
  ELSE (IF Head(ords) \in picked THEN <<>> ELSE <<PickupStop(os, Head(ords))>>)
       \o <<DropoffStop(os, Head(ords))>> \o AllStops(os, Tail(ords), picked)

\* required_pickup[i]: index of the PICKUP that must precede stop i, 0 for none (-1 in the source)
RequiredPickup(stops, picked) ==
  [i \in DOMAIN stops |->
     IF stops[i].stop_type = "PICKUP" \/ stops[i].order_id \in picked THEN 0
     ELSE CHOOSE k \in DOMAIN stops :
            stops[k].stop_type = "PICKUP" /\ stops[k].order_id = stops[i].order_id]

\* variant without the precedence check
PrecedenceOk_Unchecked(req, mask, nxt) == TRUE

\* "if req != -1 and not (mask & (1 << req)): continue"
PrecedenceOk(req, mask, nxt) == req[nxt] = 0 \/ req[nxt] \in mask

\* variant that extends the first reachable last stop, whatever its distance
DpEntry_FirstLast(tab, stops, req, S, j) ==
  LET mask == S \ {j}
      lasts == {i \in mask : tab[<<mask, i>>].d < INF}
      val(i) == tab[<<mask, i>>].d + get_distance(stops[i].location, stops[j].location)
  IN IF ~PrecedenceOk(req, mask, j) \/ lasts = {} THEN [d |-> INF, p |-> 0]
     ELSE LET first == CHOOSE i \in lasts : \A k \in lasts : i <= k
          IN [d |-> val(first), p |-> first]

\* dp[S][j], parent[S][j] for |S| >= 2: the first (smallest) last stop that gives the
\* strictly smallest distance, as the ascending loops with "new_dist < dp[..]" leave it.
\* The table is keyed by <<S, j>>, S the set of stops of the bit mask.
DpEntry(tab, stops, req, S, j) ==
  LET mask == S \ {j}
      lasts == {i \in mask : tab[<<mask, i>>].d < INF}
      val(i) == tab[<<mask, i>>].d + get_distance(stops[i].location, stops[j].location)
  IN IF ~PrecedenceOk(req, mask, j) \/ lasts = {} THEN [d |-> INF, p |-> 0]
     ELSE LET best == CHOOSE v \in {val(i) : i \in lasts} : \A i \in lasts : v <= val(i)
              first == CHOOSE i \in lasts : val(i) = best /\ \A k \in lasts : val(k) = best => i <= k
          IN [d |-> best, p |-> first]

RECURSIVE HeldKarp(_, _, _, _, _)
HeldKarp(tab, stops, req, start_loc, k) ==
  LET n == Len(stops)
      level == {e \in (SUBSET (1..n)) \X (1..n) : Cardinality(e[1]) = k /\ e[2] \in e[1]}
      rows == [e \in level |->
                 IF k = 1
                 THEN [d |-> IF req[e[2]] = 0 THEN get_distance(start_loc, stops[e[2]].location) ELSE INF,
                       p |-> 0]
                 ELSE DpEntry(tab, stops, req, e[1], e[2])]
  IN IF k > n THEN tab ELSE HeldKarp(tab @@ rows, stops, req, start_loc, k + 1)

RECURSIVE ReconstructPath(_, _, _)
ReconstructPath(tab, S, curr) ==
  IF tab[<<S, curr>>].p = 0 THEN <<curr>>
  ELSE ReconstructPath(tab, S \ {curr}, tab[<<S, curr>>].p) \o <<curr>>

\* best_dist and best_last over the full mask, and the path behind best_last
RouteFromTable(stops, tab) ==
  LET n == Len(stops)
      full == 1..n
      finals == {i \in full : tab[<<full, i>>].d < INF}
      best_dist == CHOOSE v \in {tab[<<full, i>>].d : i \in finals} :
                     \A i \in finals : v <= tab[<<full, i>>].d
      best_last == CHOOSE i \in finals :
                     tab[<<full, i>>].d = best_dist
                     /\ \A k \in finals : tab[<<full, k>>].d = best_dist => i <= k
      path == ReconstructPath(tab, full, best_last)
  IN IF finals = {} THEN [route |-> <<>>, total_distance |-> 0]
     ELSE [route |-> [i \in 1..n |-> stops[path[i]]], total_distance |-> best_dist]

RouteOfStops(stops, picked, start_loc) ==
  RouteFromTable(stops, HeldKarp(<<>>, stops, RequiredPickup(stops, picked), start_loc, 1))

\* the Held-Karp computation of find_optimal_route (a cache miss)
HeldKarpRoute(os, start_loc, ords, picked) == RouteOfStops(AllStops(os, ords, picked), picked, start_loc)

\* cache_key = (rounded_start, order_ids, picked_up_frozen); every location of the
\* model is a grid point, its coordinates whole numbers, which round(x, 4) leaves as
\* they are, so two couriers share a key only if they stand at the same point
CacheKey(start_loc, ords, picked) == <<start_loc, Range(ords), picked>>

\* the cache without entries
EmptyCache == [k \in {} |-> 0]

\* variant that keeps the entries of earlier calls
_clear_tsp_cache_Kept(cache) == cache

\* _clear_tsp_cache(): "_tsp_cache.clear()"
_clear_tsp_cache(cache) == EmptyCache

\* "_tsp_cache[cache_key] = (best_route_stops, best_dist)"; an empty result is not cached
CacheStore(cache, key, r) ==
  IF r.route = <<>> THEN [route |-> <<>>, total_distance |-> 0, cache |-> cache]
  ELSE [route |-> r.route, total_distance |-> r.total_distance, cache |-> (key :> r) @@ cache]

\* the route, its distance and the cache after the call
find_optimal_route(cache, os, start_loc, ords, picked) ==
  LET key == CacheKey(start_loc, ords, picked)
  IN IF ords = <<>> THEN [route |-> <<>>, total_distance |-> 0, cache |-> cache]
     ELSE IF key \in DOMAIN cache
          THEN [route |-> cache[key].route, total_distance |-> cache[key].total_distance, cache |-> cache]
     ELSE CacheStore(cache, key, HeldKarpRoute(os, start_loc, ords, picked))

\* already_picked_up = [o for o in driver.assigned_orders if o.status == PICKED_UP]
AlreadyPickedUp(os, drv) == {o \in Range(drv.assigned_orders) : os[o].status = "PICKED_UP"}

\* ---------------------------------------------------- scoring.calculate_trip_cost
\* 10 * VEHICLE_PENALTIES[vehicle_type]
VehiclePenalty10(v) == IF v = "bike" THEN 12 ELSE IF v = "car" THEN 14 ELSE 10

\* variant without the hard cutoff and without delay penalties
RouteWalk_NoCutoff(os, route, t, last_loc, delay) == [ok |-> TRUE, delay |-> 0]

\* the temporal walk: [ok, delay]; ok is FALSE when a DROPOFF breaks the hard cutoff
RECURSIVE RouteWalk(_, _, _, _, _)
RouteWalk(os, route, t, last_loc, delay) ==
  IF route = <<>> THEN [ok |-> TRUE, delay |-> delay]
  ELSE
    LET stop == Head(route)
        at == t + get_travel_time(last_loc, stop.location) + SERVICE_TIME_MINS
        dur == at - os[stop.order_id].created_time
        late == dur - os[stop.order_id].estimated_delivery_time_min
        capped == IF late > MaxDelayCap THEN MaxDelayCap ELSE late
    IN IF stop.stop_type = "DROPOFF" /\ dur > MAX_DELIVERY_TIME_MINS
       THEN [ok |-> FALSE, delay |-> delay]
       ELSE RouteWalk(os, Tail(route), at, stop.location,
                      IF stop.stop_type = "DROPOFF" /\ late > 0 THEN delay + capped ELSE delay)

\* variant without the per-order normalisation and the bundle discount
BundleFactor48_Flat(n) == 48

\* 48 * (1/n) * (1 - BUNDLE_DISCOUNT_PER_ORDER * (n - 1)), n the number of orders
BundleFactor48(n) == (12 * (5 - n)) \div n

\* variant without the capacity constraint
calculate_trip_cost_NoCapacity(os, drv, bundle, now, existing_route_distance) ==
  LET w == RouteWalk(os, bundle.route_sequence, now, drv.current_loc, 0)
  IN IF ~w.ok THEN INF
     ELSE (7 * (bundle.total_distance - existing_route_distance) + 18 * w.delay)
          * VehiclePenalty10(drv.vehicle_type) * BundleFactor48(Len(bundle.orders))

\* The cost scaled by 12 * 10 * 48: 12 * (W_DISTANCE * km + W_DELAY * delay) = 7 * units + 18 * delay
calculate_trip_cost(os, drv, bundle, now, existing_route_distance) ==
  IF Len(bundle.orders) > drv.capacity THEN INF
  ELSE LET w == RouteWalk(os, bundle.route_sequence, now, drv.current_loc, 0)
           marginal_distance == bundle.total_distance - existing_route_distance
           base_score == 7 * marginal_distance + 18 * w.delay
       IN IF ~w.ok THEN INF
          ELSE base_score * VehiclePenalty10(drv.vehicle_type) * BundleFactor48(Len(bundle.orders))

NewBundle(ords, route, dist) == [orders |-> ords, route_sequence |-> route, total_distance |-> dist]

\* ---------------------------------------- DispatchEngine._assign_bundle_to_driver
\* the order status written by "for order in bundle.orders: order.status = ASSIGNED"
AssignedStatus(old) == "ASSIGNED"

_assign_bundle_to_driver(st, d, bundle, now) ==
  LET drv == st.drivers[d]
      first_stop == bundle.route_sequence[1]
      eta == add_minutes_to_time(now, get_travel_time(drv.current_loc, first_stop.location))
  IN [st EXCEPT
        !.drivers[d] = [drv EXCEPT !.assigned_orders = bundle.orders,
                                   !.status = "ACCRUING",
                                   !.route = bundle.route_sequence,
                                   !.current_stop_index = 0,
                                   !.arrival_time_at_next_stop = eta],
        !.orders = [o \in DOMAIN st.orders |->
                      IF o \in Range(bundle.orders)
                      THEN [st.orders[o] EXCEPT !.status = AssignedStatus(@)]
                      ELSE st.orders[o]]]

\* the nearest driver of a list: the first with the strictly smallest pickup distance
\* ("if dist < min_dist"); 0 for none
NearestDriver(st, ds, o) ==
  IF ds = <<>> THEN 0
  ELSE LET dist(i) == get_distance(st.drivers[ds[i]].current_loc, st.orders[o].pickup_loc)
           k == CHOOSE i \in DOMAIN ds : \A j \in DOMAIN ds : dist(i) < dist(j) \/ (dist(i) = dist(j) /\ i <= j)
       IN ds[k]

\* the simple P -> D bundle of one order for a driver
SimpleBundle(st, d, o) ==
  NewBundle(<<o>>, <<PickupStop(st.orders, o), DropoffStop(st.orders, o)>>,
            get_distance(st.drivers[d].current_loc, st.orders[o].pickup_loc)
            + get_distance(st.orders[o].pickup_loc, st.orders[o].dropoff_loc))

\* variant of the baseline's idle filter that does not look at the status
BaselineEligible_AnyStatus(drv, now) == drv.available_from <= now

\* ------------------------------------------------- DispatchEngine.run_baseline
BaselineEligible(drv, now) == drv.status = "IDLE" /\ drv.available_from <= now

\* variant in which the chosen courier stays in the idle list
BaselineRemove_Kept(idle_drivers, best) == idle_drivers

\* idle_drivers.remove(best_driver)
BaselineRemove(idle_drivers, best) == RemoveFirst(idle_drivers, best)

RECURSIVE BaselineLoop(_, _, _, _)
BaselineLoop(st, idle_drivers, todo, now) ==
  IF todo = <<>> \/ idle_drivers = <<>> THEN st
  ELSE LET o == Head(todo)
           best == NearestDriver(st, idle_drivers, o)
           b == SimpleBundle(st, best, o)
           st1 == _assign_bundle_to_driver(st, best, b, now)
       IN BaselineLoop([st1 EXCEPT !.assigned = Append(@, o),
                                   !.distance = @ + b.total_distance],
                       BaselineRemove(idle_drivers, best), Tail(todo), now)

DriverSeq == [i \in DriverIds |-> i]

run_baseline(ds, os, todo, now) ==
  BaselineLoop([drivers |-> ds, orders |-> os, assigned |-> <<>>, distance |-> 0],
               SelectSeq(DriverSeq, LAMBDA d : BaselineEligible(ds[d], now)), todo, now)

\* ------------------------------------- existing route distances and eligibility
\* driver_existing_distances: E per driver at the start of a dispatch call, driver by
\* driver; acc is [E, cache]
ExistingDistanceOf(acc, r) == [E |-> Append(acc.E, r.total_distance), cache |-> r.cache]

RECURSIVE ExistingDistances(_, _, _, _)
ExistingDistances(ds, os, d, acc) ==
  IF d > Len(ds) THEN acc
  ELSE IF ds[d].status # "IDLE" /\ ds[d].assigned_orders # <<>>
       THEN ExistingDistances(ds, os, d + 1,
              ExistingDistanceOf(acc, find_optimal_route(acc.cache, os, ds[d].current_loc,
                                                         ds[d].assigned_orders, AlreadyPickedUp(os, ds[d]))))
       ELSE ExistingDistances(ds, os, d + 1, [acc EXCEPT !.E = Append(@, 0)])

\* variant of the eligibility test that admits DELIVERING couriers below capacity
IsEligible_DeliveringToo(drv, now) ==
  \/ drv.status = "IDLE" /\ drv.available_from <= now
  \/ drv.status # "IDLE" /\ Len(drv.assigned_orders) < drv.capacity

\* the eligible-driver test of run_sequential and run_combinatorial
IsEligible(drv, now) ==
  /\ drv.status # "DELIVERING"
  /\ \/ drv.status = "IDLE" /\ drv.available_from <= now
     \/ drv.status = "ACCRUING" /\ Len(drv.assigned_orders) < drv.capacity

\* variant of the eligible list that does not look at available_from
EligibleDrivers_IgnoringShift(ds, now) ==
  SelectSeq([i \in 1..Len(ds) |-> i],
            LAMBDA d : \/ ds[d].status = "IDLE"
                       \/ ds[d].status = "ACCRUING" /\ Len(ds[d].assigned_orders) < ds[d].capacity)

EligibleDrivers(ds, now) == SelectSeq(DriverSeq, LAMBDA d : IsEligible(ds[d], now))

\* "if len(driver.assigned_orders) >= driver.capacity: eligible_drivers.remove(driver)"
DropIfAtCapacity(st, d) ==
  IF Len(st.drivers[d].assigned_orders) >= st.drivers[d].capacity
  THEN [st EXCEPT !.eligible = RemoveIfPresent(@, d)]
  ELSE st

DispatchStateWith(ds, os, now, e) ==
  [drivers |-> ds, orders |-> os, assigned |-> <<>>, distance |-> 0,
   E |-> e.E, cache |-> e.cache, eligible |-> EligibleDrivers(ds, now)]

DispatchState(ds, os, now) ==
  DispatchStateWith(ds, os, now, ExistingDistances(ds, os, 1, [E |-> <<>>, cache |-> _clear_tsp_cache(tsp_cache)]))

\* the bid record of a driver that does not bid
NoBid(d, all_orders, new_orders, cache) ==
  [cost |-> INF, driver |-> d, bundle |-> NewBundle(all_orders, <<>>, 0), new_orders |-> new_orders,
   marginal |-> 0, cache |-> cache]

\* the bid for the route r found for all_orders
BidOnRoute(st, d, new_orders, now, all_orders, r) ==
  IF r.route = <<>> THEN NoBid(d, all_orders, new_orders, r.cache)
  ELSE [cost |-> calculate_trip_cost(st.orders, st.drivers[d], NewBundle(all_orders, r.route, r.total_distance),
                                     now, st.E[d]),
        driver |-> d, bundle |-> NewBundle(all_orders, r.route, r.total_distance),
        new_orders |-> new_orders, marginal |-> r.total_distance - st.E[d], cache |-> r.cache]

\* one driver's bid for taking new_orders on top of its assigned orders, and the cache
\* after it; the capacity check comes before the route computation
DriverBid(st, d, new_orders, now) ==
  LET drv == st.drivers[d]
      all_orders == drv.assigned_orders \o new_orders
  IN IF Len(all_orders) > drv.capacity THEN NoBid(d, all_orders, new_orders, st.cache)
     ELSE BidOnRoute(st, d, new_orders, now, all_orders,
                     find_optimal_route(st.cache, st.orders, drv.current_loc, all_orders,
                                        AlreadyPickedUp(st.orders, drv)))

\* ------------------------------------------------ DispatchEngine.run_sequential
\* the bids of the eligible drivers from the i-th on, in list order, and the cache after them
RECURSIVE SequentialBids(_, _, _, _, _)
SequentialBidsStep(st, o, now, i, bids, b) ==
  SequentialBids([st EXCEPT !.cache = b.cache], o, now, i + 1, Append(bids, b))

SequentialBids(st, o, now, i, bids) ==
  IF i > Len(st.eligible) THEN [bids |-> bids, cache |-> st.cache]
  ELSE SequentialBidsStep(st, o, now, i, bids, DriverBid(st, st.eligible[i], <<o>>, now))

\* variant that awards to the highest finite bid
BestBidIndex_Highest(bids) ==
  IF \A i \in DOMAIN bids : bids[i].cost >= INF THEN 0
  ELSE CHOOSE i \in DOMAIN bids :
         /\ bids[i].cost < INF
         /\ \A j \in DOMAIN bids : bids[j].cost < INF => bids[j].cost <= bids[i].cost

\* "if bid < best_bid": the first strictly lowest finite bid; 0 for none
BestBidIndex(bids) ==
  IF \A i \in DOMAIN bids : bids[i].cost >= INF THEN 0
  ELSE CHOOSE i \in DOMAIN bids :
         \A j \in DOMAIN bids : bids[i].cost < bids[j].cost \/ (bids[i].cost = bids[j].cost /\ i <= j)

\* the fallback assignment of order o to the idle driver best with the simple bundle b
SequentialFallbackAssign(st, o, now, best, b) ==
  DropIfAtCapacity([_assign_bundle_to_driver(st, best, b, now) EXCEPT
                      !.orders[o].status = "ASSIGNED",
                      !.assigned = Append(@, o),
                      !.distance = @ + b.total_distance,
                      !.E[best] = b.total_distance],
                   best)

SequentialFallbackTo(st, o, now, best) ==
  SequentialFallbackAssign(st, o, now, best, SimpleBundle(st, best, o))

SequentialFallbackFrom(st, o, now, idle_drivers) ==
  IF idle_drivers = <<>> THEN st
  ELSE SequentialFallbackTo(st, o, now, NearestDriver(st, idle_drivers, o))

\* variant without the fallback: an order nobody bids for is left alone
SequentialFallback_None(st, o, now) == st

\* the fallback branch of run_sequential for one order
SequentialFallback(st, o, now) ==
  SequentialFallbackFrom(st, o, now, SelectSeq(st.eligible, LAMBDA d : st.drivers[d].status = "IDLE"))

\* variant of the award that leaves the courier's existing distance as it was
SequentialAward_StaleE(st, o, now, win) ==
  DropIfAtCapacity([_assign_bundle_to_driver(st, win.driver, win.bundle, now) EXCEPT
                      !.orders[o].status = "ASSIGNED",
                      !.assigned = Append(@, o),
                      !.distance = @ + win.marginal],
                   win.driver)

\* the award of order o to the best bidder
SequentialAward(st, o, now, win) ==
  DropIfAtCapacity([_assign_bundle_to_driver(st, win.driver, win.bundle, now) EXCEPT
                      !.orders[o].status = "ASSIGNED",
                      !.assigned = Append(@, o),
                      !.distance = @ + win.marginal,
                      !.E[win.driver] = win.bundle.total_distance],
                   win.driver)

SequentialDecide(st, o, now, bids, k) ==
  IF k # 0 THEN SequentialAward(st, o, now, bids[k]) ELSE SequentialFallback(st, o, now)

SequentialWithBids(st, o, now, sb) ==
  SequentialDecide([st EXCEPT !.cache = sb.cache], o, now, sb.bids, BestBidIndex(sb.bids))

SequentialOrder(st, o, now) == SequentialWithBids(st, o, now, SequentialBids(st, o, now, 1, <<>>))

RECURSIVE SequentialLoop(_, _, _)
SequentialLoop(st, todo, now) ==
  IF todo = <<>> THEN st ELSE SequentialLoop(SequentialOrder(st, Head(todo), now), Tail(todo), now)

run_sequential(ds, os, todo, now) == SequentialLoop(DispatchState(ds, os, now), todo, now)

\* ----------------------------------------------- dispatch.generate_spatial_bundles
PickupDistance(os, a, b) == get_distance(os[a].pickup_loc, os[b].pickup_loc)

RECURSIVE SumDist(_, _, _)
SumDist(os, o, group) ==
  IF group = <<>> THEN 0 ELSE PickupDistance(os, o, Head(group)) + SumDist(os, o, Tail(group))

RECURSIVE _greedy_max_cut(_, _, _, _)
_greedy_max_cut(os, todo, group_a, group_b) ==
  IF todo = <<>> THEN [a |-> group_a, b |-> group_b]
  ELSE IF SumDist(os, Head(todo), group_a) >= SumDist(os, Head(todo), group_b)
       THEN _greedy_max_cut(os, Tail(todo), Append(group_a, Head(todo)), group_b)
       ELSE _greedy_max_cut(os, Tail(todo), group_a, Append(group_b, Head(todo)))

\* variant without the duplicate check
add_bundle_if_new_Always(bundles, b) == Append(bundles, b)

\* add_bundle_if_new(bundle): appended unless a bundle with the same ids was seen
add_bundle_if_new(bundles, b) ==
  IF \E i \in DOMAIN bundles : Range(bundles[i]) = Range(b) THEN bundles ELSE Append(bundles, b)

\* "if 1 < len(group) <= max_bundle_size: add_bundle_if_new(group)"
AddIfWithinSize(bundles, group, k) ==
  IF 1 < Len(group) /\ Len(group) <= k THEN add_bundle_if_new(bundles, group) ELSE bundles

RECURSIVE recursive_split(_, _, _, _, _)
SplitRecurse(os, group, depth, bundles, k) ==
  IF depth < MaxSplitDepth /\ Len(group) > k
  THEN recursive_split(os, group, depth + 1, bundles, k) ELSE bundles

\* the part of recursive_split after the cut
SplitGroups(os, cut, depth, bundles, k) ==
  SplitRecurse(os, cut.b, depth,
               SplitRecurse(os, cut.a, depth,
                            AddIfWithinSize(AddIfWithinSize(bundles, cut.a, k), cut.b, k), k), k)

recursive_split(os, group, depth, bundles, k) ==
  IF group = <<>> THEN bundles
  ELSE IF Len(group) = 1 THEN add_bundle_if_new(bundles, group)
  ELSE SplitGroups(os, _greedy_max_cut(os, group, <<>>, <<>>), depth,
                   IF Len(group) <= k THEN add_bundle_if_new(bundles, group) ELSE bundles, k)

\* the index pairs (i, j) of a list of n orders, i outer, j inner
IndexPairs(n) == [k \in 1..(n * n) |-> <<((k - 1) \div n) + 1, ((k - 1) % n) + 1>>]

\* the pairs (i < j) with pickup distance <= MAX_PICKUP_DISTANCE_KM, i outer, j inner
NearbyPairs(os, ords) ==
  SelectSeq(IndexPairs(Len(ords)),
            LAMBDA p : /\ p[1] < p[2]
                       /\ 7 * PickupDistance(os, ords[p[1]], ords[p[2]]) <= MaxPickupDistTimes7)

RECURSIVE AddPairs(_, _, _)
AddPairs(ords, pairs, bundles) ==
  IF pairs = <<>> THEN bundles
  ELSE AddPairs(ords, Tail(pairs),
                add_bundle_if_new(bundles, <<ords[Head(pairs)[1]], ords[Head(pairs)[2]]>>))

AddNearbyPairs(os, ords, bundles) == AddPairs(ords, NearbyPairs(os, ords), bundles)

RECURSIVE AddSingles(_, _)
AddSingles(ords, bundles) ==
  IF ords = <<>> THEN bundles
  ELSE AddSingles(Tail(ords), add_bundle_if_new(bundles, <<Head(ords)>>))

generate_spatial_bundles(os, ords, k) ==
  IF ords = <<>> THEN <<>>
  ELSE AddSingles(ords, AddNearbyPairs(os, ords, recursive_split(os, ords, 0, <<>>, k)))

\* --------------------------------------------- DispatchEngine.run_combinatorial
\* the (bundle, eligible driver) bids from the i-th pair on, bundles outer and drivers
\* inner, infeasible ones dropped, and the cache after them
RECURSIVE BundleBids(_, _, _, _, _)
BundleBidsStep(st, bundles, now, i, bids, b) ==
  BundleBids([st EXCEPT !.cache = b.cache], bundles, now, i + 1,
             IF b.cost # INF THEN Append(bids, b) ELSE bids)

BundleBids(st, bundles, now, i, bids) ==
  IF i > Len(bundles) * Len(st.eligible) THEN [bids |-> bids, cache |-> st.cache]
  ELSE BundleBidsStep(st, bundles, now, i, bids,
                      DriverBid(st, st.eligible[((i - 1) % Len(st.eligible)) + 1],
                                bundles[((i - 1) \div Len(st.eligible)) + 1], now))

CombinatorialBids(st, pending, now) ==
  BundleBids(st, generate_spatial_bundles(st.orders, pending, MAX_BUNDLE_SIZE), now, 1, <<>>)

\* variant of the pick that prefers the smaller bundle among equal costs
GreedyPick_SmallerFirst(bids) ==
  LET Better(a, b) == a.cost < b.cost \/ (a.cost = b.cost /\ Len(a.new_orders) < Len(b.new_orders))
      Same(a, b) == a.cost = b.cost /\ Len(a.new_orders) = Len(b.new_orders)
  IN CHOOSE i \in DOMAIN bids :
       \A j \in DOMAIN bids : Better(bids[i], bids[j]) \/ (Same(bids[i], bids[j]) /\ i <= j)

\* min(all_possible_assignments, key=(cost, -len(new_orders))): the first minimal element
GreedyPick(bids) ==
  LET Better(a, b) == a.cost < b.cost \/ (a.cost = b.cost /\ Len(a.new_orders) > Len(b.new_orders))
      Same(a, b) == a.cost = b.cost /\ Len(a.new_orders) = Len(b.new_orders)
  IN CHOOSE i \in DOMAIN bids :
       \A j \in DOMAIN bids : Better(bids[i], bids[j]) \/ (Same(bids[i], bids[j]) /\ i <= j)

\* variant that takes the nearest IDLE driver whatever its capacity
FallbackDriver_AnyIdle(st, o) ==
  LET below(d) == Len(st.drivers[d].assigned_orders) < st.drivers[d].capacity
      idle == SelectSeq(st.eligible, LAMBDA d : st.drivers[d].status = "IDLE")
      accruing == SelectSeq(st.eligible, LAMBDA d : st.drivers[d].status = "ACCRUING" /\ below(d))
  IN IF idle # <<>> THEN NearestDriver(st, idle, o) ELSE NearestDriver(st, accruing, o)

\* the fallback driver of one order: nearest IDLE driver below capacity, else nearest ACCRUING one
FallbackDriver(st, o) ==
  LET below(d) == Len(st.drivers[d].assigned_orders) < st.drivers[d].capacity
      idle == SelectSeq(st.eligible, LAMBDA d : st.drivers[d].status = "IDLE" /\ below(d))
      accruing == SelectSeq(st.eligible, LAMBDA d : st.drivers[d].status = "ACCRUING" /\ below(d))
  IN IF idle # <<>> THEN NearestDriver(st, idle, o) ELSE NearestDriver(st, accruing, o)

\* the bookkeeping after a fallback assignment; st.placed collects orders_assigned_in_fallback
FallbackPlaced(st, o, best) ==
  DropIfAtCapacity([st EXCEPT !.orders[o].status = "ASSIGNED",
                              !.assigned = Append(@, o),
                              !.placed = Append(@, o)],
                   best)

\* an IDLE fallback driver gets the simple P -> D route
FallbackIdle(st, o, now, best, simple) ==
  FallbackPlaced([_assign_bundle_to_driver(st, best, simple, now) EXCEPT
                    !.distance = @ + simple.total_distance],
                 o, best)

\* an ACCRUING fallback driver is re-planned with the order added; skipped if no route
FallbackAccruing(st, o, now, best, all_orders, r) ==
  IF r.route = <<>> THEN st
  ELSE FallbackPlaced([_assign_bundle_to_driver(st, best, NewBundle(all_orders, r.route, r.total_distance), now)
                         EXCEPT !.distance = @ + (r.total_distance - st.E[best]),
                                !.E[best] = r.total_distance,
                                !.cache = r.cache],
                      o, best)

FallbackTo(st, o, now, best) ==
  IF best = 0 THEN st
  ELSE IF st.drivers[best].status = "IDLE"
       THEN FallbackIdle(st, o, now, best, SimpleBundle(st, best, o))
       ELSE FallbackAccruing(st, o, now, best, st.drivers[best].assigned_orders \o <<o>>,
                             find_optimal_route(st.cache, st.orders, st.drivers[best].current_loc,
                                                st.drivers[best].assigned_orders \o <<o>>,
                                                AlreadyPickedUp(st.orders, st.drivers[best])))

\* the fallback branch for one order
CombinatorialFallbackOrder(st, o, now) == FallbackTo(st, o, now, FallbackDriver(st, o))

RECURSIVE CombinatorialFallback(_, _, _)
CombinatorialFallback(st, todo, now) ==
  IF todo = <<>> \/ st.eligible = <<>> THEN st
  ELSE CombinatorialFallback(CombinatorialFallbackOrder(st, Head(todo), now), Tail(todo), now)

\* variant of the commit that does not report the orders it assigned
CombinatorialCommit_NotReported(st, win, now) ==
  LET st1 == _assign_bundle_to_driver(st, win.driver, win.bundle, now)
      st2 == [st1 EXCEPT !.distance = @ + win.marginal,
                         !.E[win.driver] = win.bundle.total_distance]
  IN DropIfAtCapacity(st2, win.driver)

\* the commit of the greedy pick
CombinatorialCommit(st, win, now) ==
  LET st1 == _assign_bundle_to_driver(st, win.driver, win.bundle, now)
      st2 == [st1 EXCEPT !.distance = @ + win.marginal,
                         !.E[win.driver] = win.bundle.total_distance,
                         !.assigned = @ \o win.new_orders]
  IN DropIfAtCapacity(st2, win.driver)

\* the pending list after a fallback pass: the orders it placed are removed
PendingAfterFallback(pending, placed) == RemoveAll(pending, placed)

\* variant of the commit bookkeeping that leaves the pending list as it was
PendingAfterCommit_Kept(pending, new_orders) == pending

\* the pending list after a commit: the new orders of the winning bundle are removed
PendingAfterCommit(pending, new_orders) == RemoveAll(pending, new_orders)

RECURSIVE CombinatorialLoop(_, _, _)
\* after the fallback: stop if it placed nothing, else go round again
CombinatorialAfterFallback(fb, pending, now) ==
  IF fb.placed = <<>> THEN fb ELSE CombinatorialLoop(fb, PendingAfterFallback(pending, fb.placed), now)

CombinatorialAward(st, pending, now, win) ==
  CombinatorialLoop(CombinatorialCommit(st, win, now), PendingAfterCommit(pending, win.new_orders), now)

CombinatorialDecide(st, pending, now, bids) ==
  IF bids = <<>>
  THEN CombinatorialAfterFallback(CombinatorialFallback([st EXCEPT !.placed = <<>>], pending, now),
                                  pending, now)
  ELSE CombinatorialAward(st, pending, now, bids[GreedyPick(bids)])

CombinatorialWithBids(st, pending, now, cb) ==
  CombinatorialDecide([st EXCEPT !.cache = cb.cache], pending, now, cb.bids)

CombinatorialLoop(st, pending, now) ==
  IF st.eligible = <<>> \/ pending = <<>> THEN st
  ELSE CombinatorialWithBids(st, pending, now, CombinatorialBids(st, pending, now))

run_combinatorial(ds, os, todo, now) ==
  CombinatorialLoop([DispatchState(ds, os, now) EXCEPT !.eligible = @] @@ [placed |-> <<>>], todo, now)

\* --------------------------------------------------------------- Simulation
AllDropoff(stops) == \A i \in DOMAIN stops : stops[i].stop_type = "DROPOFF"

\* route[current_stop_index:]
RemainingStops(drv) ==
  IF drv.current_stop_index < 0 THEN drv.route
  ELSE SubSeq(drv.route, drv.current_stop_index + 1, Len(drv.route))

\* variant that never switches to DELIVERING
StatusAfterStop_Kept(old, remaining) == old

\* the status written after a stop when stops remain
StatusAfterStop(old, remaining) == IF AllDropoff(remaining) THEN "DELIVERING" ELSE old

\* variant that leaves a delivered order in the courier's list
RemoveDelivered_Kept(assigned, o) == assigned

\* "if order in driver.assigned_orders: driver.assigned_orders.remove(order)"
RemoveDelivered(assigned, o) == RemoveIfPresent(assigned, o)

\* variant that records no pickup time
StampOrder_NoPickupTime(ord, stop_type, now) ==
  IF stop_type = "PICKUP" THEN [ord EXCEPT !.status = "PICKED_UP"]
  ELSE [ord EXCEPT !.status = "DELIVERED", !.dropoff_time = now]

\* "order.status = PICKED_UP; order.pickup_time = current_time" at a PICKUP,
\* "order.status = DELIVERED; order.dropoff_time = current_time" at a DROPOFF
StampOrder(ord, stop_type, now) ==
  IF stop_type = "PICKUP" THEN [ord EXCEPT !.status = "PICKED_UP", !.pickup_time = now]
  ELSE [ord EXCEPT !.status = "DELIVERED", !.dropoff_time = now]

\* one driver's "while" loop of _update_driver_states
RECURSIVE ProcessStops(_, _, _)
ProcessStops(st, d, now) ==
  LET drv == st.drivers[d]
      idx == drv.current_stop_index
      stop == drv.route[idx + 1]
      o == stop.order_id
      ord == st.orders[o]
      os1 == [st.orders EXCEPT ![o] = StampOrder(ord, stop.stop_type, now)]
      done1 == IF stop.stop_type = "DROPOFF"
               THEN Append(st.completed, [order_id |-> o, driver_id |-> d,
                                          created_time |-> ord.created_time, delivered_time |-> now])
               ELSE st.completed
      assigned1 == IF stop.stop_type = "DROPOFF" THEN RemoveDelivered(drv.assigned_orders, o)
                   ELSE drv.assigned_orders
      next_stop == drv.route[idx + 2]
      eta == add_minutes_to_time(now, get_travel_time(stop.location, next_stop.location) + SERVICE_TIME_MINS)
      drv1 == IF idx + 1 >= Len(drv.route)
              THEN [drv EXCEPT !.current_loc = stop.location, !.status = "IDLE", !.route = <<>>,
                               !.current_stop_index = -1, !.assigned_orders = <<>>]
              ELSE [drv EXCEPT !.current_loc = stop.location, !.assigned_orders = assigned1,
                               !.current_stop_index = idx + 1,
                               !.arrival_time_at_next_stop = eta,
                               !.status = StatusAfterStop(@, SubSeq(drv.route, idx + 2, Len(drv.route)))]
  IN IF drv.status # "IDLE" /\ 0 <= idx /\ idx < Len(drv.route) /\ now >= drv.arrival_time_at_next_stop
     THEN ProcessStops([drivers |-> [st.drivers EXCEPT ![d] = drv1], orders |-> os1, completed |-> done1],
                       d, now)
     ELSE st

RECURSIVE UpdateLoop(_, _, _)
UpdateLoop(st, d, now) ==
  IF d > Len(st.drivers) THEN st ELSE UpdateLoop(ProcessStops(st, d, now), d + 1, now)

_update_driver_states(ds, os, done, now) ==
  UpdateLoop([drivers |-> ds, orders |-> os, completed |-> done], 1, now)

\* variant that moves the whole master list at once
OrdersToMove_All(os, master, now) == master

\* _inject_new_orders: the prefix of the master list with created_time <= current_time
RECURSIVE OrdersToMove(_, _, _)
OrdersToMove(os, master, now) ==
  IF master = <<>> \/ os[Head(master)].created_time > now THEN <<>>
  ELSE <<Head(master)>> \o OrdersToMove(os, Tail(master), now)

\* variant in which no order ever counts as urgent
IsUrgent_Never(ord, now) == FALSE

\* _should_dispatch_batch: "if time_to_deadline <= order.estimated_delivery_time_min / 3"
IsUrgent(ord, now) == 3 * (ord.deadline - now) <= ord.estimated_delivery_time_min

\* variant that dispatches on the batch window only
_should_dispatch_batch_WindowOnly(os, pending, bst, now) ==
  pending # <<>> /\ bst # NoTime /\ now - bst >= BATCH_WINDOW_MINS

_should_dispatch_batch(os, pending, bst, now) ==
  /\ pending # <<>>
  /\ \/ bst # NoTime /\ now - bst >= BATCH_WINDOW_MINS
     \/ \E i \in DOMAIN pending : IsUrgent(os[pending[i]], now)

\* variant that counts every order injected so far, whenever it was created
_get_dispatch_mode_WholeRun(recent, now) ==
  IF Len(recent) >= HIGH_LOAD_THRESHOLD * COMBINATORIAL_WINDOW_MINS THEN "combinatorial" ELSE "sequential"

\* _get_dispatch_mode: order_rate = len(recent) / window >= threshold
_get_dispatch_mode(recent, now) ==
  LET five_mins_ago == add_minutes_to_time(now, -COMBINATORIAL_WINDOW_MINS)
      n == Cardinality({i \in DOMAIN recent : recent[i] > five_mins_ago})
  IN IF n >= HIGH_LOAD_THRESHOLD * COMBINATORIAL_WINDOW_MINS THEN "combinatorial" ELSE "sequential"

\* tick(): the dispatch routine a strategy selects
StrategyMode(strat, recent, now) ==
  IF strat = "adaptive" THEN _get_dispatch_mode(recent, now) ELSE strat

\* the strategy call of tick(): [drivers, orders, assigned, distance, ...]
RunStrategy(strat, ds, os, todo, recent, now) ==
  LET mode == StrategyMode(strat, recent, now)
  IN IF mode = "baseline" THEN run_baseline(ds, os, todo, now)
     ELSE IF mode = "sequential" THEN run_sequential(ds, os, todo, now)
     ELSE run_combinatorial(ds, os, todo, now)

\* variant that leaves the assigned orders in the pending queue
RemoveAssigned_Kept(pending, assigned) == pending

\* tick(): "for order in assigned_in_tick: if order in pending: pending.remove(order)"
RemoveAssigned(pending, assigned) == RemoveAll(pending, assigned)

\* ------------------------------------------------------------------- inputs
DriverStart(j) == IF j = 1 THEN <<0, 0>> ELSE IF j = 2 THEN <<3, 0>> ELSE <<0, 3>>
DriverVehicle(j) == IF j = 1 THEN "motorbike" ELSE IF j = 2 THEN "car" ELSE "bike"

\* the first two couriers range over all capacities; a further courier is a plain
\* single-order courier on shift from the start
DriverChoices(j) ==
  IF j <= 2
  THEN {NewDriver(DriverStart(j), DriverVehicle(j), c, a) :
          c \in 0..MaxCapacity, a \in (IF j = 1 THEN {0} ELSE {0, LateShift})}
  ELSE {NewDriver(DriverStart(j), DriverVehicle(j), 1, 0)}

OrderChoices(i) ==
  IF i = 1 THEN {NewOrder(<<2, 0>>, <<2, 2>>, 0, 30), NewOrder(<<24, 0>>, <<0, 0>>, 0, 30)}
  ELSE IF i = 2 THEN {NewOrder(<<1, 0>>, <<-1, 0>>, 0, 30), NewOrder(<<6, 0>>, <<6, 2>>, 3, 30)}
  ELSE IF i = 3 THEN {NewOrder(<<2, 0>>, <<3, 2>>, 0, 30), NewOrder(<<2, 0>>, <<3, 2>>, 4, 30)}
  ELSE {NewOrder(<<2, 1>>, <<2, 2>>, 1, 30)}

\* the order lists and courier lists a run can be constructed with
RECURSIVE OrderLists(_)
OrderLists(n) ==
  IF n = 0 THEN {<<>>} ELSE {Append(s, o) : s \in OrderLists(n - 1), o \in OrderChoices(n)}

RECURSIVE DriverLists(_)
DriverLists(n) ==
  IF n = 0 THEN {<<>>} ELSE {Append(s, d) : s \in DriverLists(n - 1), d \in DriverChoices(n)}

Init ==
  /\ strategy \in Strategies
  /\ current_time = 0
  /\ orders \in OrderLists(0) \cup OrderLists(NumOrders)
  /\ drivers \in DriverLists(NumDrivers)
  /\ master_orders_list = SortedByCreated(orders, Len(orders))
  /\ pending_orders = <<>>
  /\ completed_missions = <<>>
  /\ total_distance_traveled = 0
  /\ total_busy_driver_ticks = 0
  /\ total_driver_ticks = 0
  /\ drivers_activated = {}
  /\ recent_order_times = <<>>
  /\ batch_start_time = NoTime
  /\ assigned_in_tick = <<>>
  /\ distance_in_tick = 0
  /\ invoked_in_tick = "none"
  /\ call = NoCall
  /\ tsp_cache = EmptyCache
  /\ pc = "update"

\* variant of the loop condition without the end-of-day test
RunContinues_NoEndTime == Len(completed_missions) < Len(master_orders_list) + Len(pending_orders)

\* the loop condition of run(); total_orders = len(master) + len(pending) at the start
RunContinues == current_time < SIMULATION_END_TIME /\ Len(completed_missions) < Len(orders)

\* round(a / b, 2) in hundredths, ties to the even hundredth
Round2(a, b) ==
  LET q == (100 * a) \div b
      r == (100 * a) % b
  IN IF 2 * r > b \/ (2 * r = b /\ q % 2 = 1) THEN q + 1 ELSE q

\* get_results(): the head-line counters; active_driver_efficiency is in hundredths
get_results ==
  IF Len(completed_missions) = 0
  THEN [orders_delivered |-> 0, drivers_used |-> 0, active_driver_efficiency |-> 0]
  ELSE [orders_delivered |-> Len(completed_missions),
        drivers_used |-> Cardinality(drivers_activated),
        active_driver_efficiency |->
          IF Cardinality(drivers_activated) > 0
          THEN Round2(Len(completed_missions), Cardinality(drivers_activated)) ELSE 0]

\* tick(), first call: self._update_driver_states()
UpdateDriverStates ==
  /\ pc = "update"
  /\ RunContinues
  /\ LET st == _update_driver_states(drivers, orders, completed_missions, current_time)
     IN /\ drivers' = st.drivers
        /\ orders' = st.orders
        /\ completed_missions' = st.completed
  /\ assigned_in_tick' = <<>>
  /\ distance_in_tick' = 0
  /\ invoked_in_tick' = "none"
  /\ pc' = "inject"
  /\ call' = call
  /\ tsp_cache' = tsp_cache
  /\ UNCHANGED <<strategy, current_time, master_orders_list, pending_orders,
                 total_distance_traveled, total_busy_driver_ticks, total_driver_ticks,
                 drivers_activated, recent_order_times, batch_start_time>>

\* tick(), second call: self._inject_new_orders()
InjectNewOrders ==
  /\ pc = "inject"
  /\ LET moved == OrdersToMove(orders, master_orders_list, current_time)
     IN /\ pending_orders' = pending_orders \o moved
        /\ master_orders_list' = RemoveAll(master_orders_list, moved)
        /\ recent_order_times' = recent_order_times \o [i \in DOMAIN moved |-> orders[moved[i]].created_time]
        /\ batch_start_time' = IF moved # <<>> /\ batch_start_time = NoTime
                               THEN current_time ELSE batch_start_time
  /\ pc' = "dispatch"
  /\ call' = call
  /\ tsp_cache' = tsp_cache
  /\ UNCHANGED <<strategy, current_time, orders, drivers, completed_missions,
                 total_distance_traveled, total_busy_driver_ticks, total_driver_ticks,
                 drivers_activated, assigned_in_tick, distance_in_tick, invoked_in_tick>>

\* tick(), the rest: the dispatch decision and call, the KPI counters, the clock
Dispatch ==
  /\ pc = "dispatch"
  /\ LET should_dispatch ==
           /\ pending_orders # <<>>
           /\ \/ strategy = "baseline"
              \/ _should_dispatch_batch(orders, pending_orders, batch_start_time, current_time)
         res == IF should_dispatch
                THEN RunStrategy(strategy, drivers, orders, pending_orders, recent_order_times, current_time)
                ELSE [drivers |-> drivers, orders |-> orders, assigned |-> <<>>, distance |-> 0]
     IN /\ drivers' = res.drivers
        /\ orders' = res.orders
        /\ assigned_in_tick' = res.assigned
        /\ distance_in_tick' = res.distance
        /\ invoked_in_tick' = IF should_dispatch
                              THEN StrategyMode(strategy, recent_order_times, current_time)
                              ELSE "none"
        /\ batch_start_time' = IF should_dispatch THEN NoTime ELSE batch_start_time
        /\ tsp_cache' = IF should_dispatch
                            /\ StrategyMode(strategy, recent_order_times, current_time) # "baseline"
                         THEN res.cache ELSE tsp_cache
        /\ total_distance_traveled' = total_distance_traveled + res.distance
        /\ pending_orders' = RemoveAssigned(pending_orders, res.assigned)
        /\ drivers_activated' = drivers_activated \cup
             {d \in DriverIds : Len(res.drivers[d].assigned_orders) > 0 \/ res.drivers[d].status # "IDLE"}
        /\ total_driver_ticks' = total_driver_ticks + Len(drivers)
        /\ total_busy_driver_ticks' = total_busy_driver_ticks
             + Cardinality({d \in DriverIds : res.drivers[d].status # "IDLE"})
  /\ current_time' = add_minutes_to_time(current_time, SIMULATION_SPEED_MINUTES)
  /\ pc' = "update"
  /\ call' = call
  /\ UNCHANGED <<strategy, master_orders_list, completed_missions, recent_order_times>>

Next == UpdateDriverStates \/ InjectNewOrders \/ Dispatch

Spec == Init /\ [][Next]_vars

\* variant in which a tick that has started runs to its end but run() need not call
\* tick() again
Advance_NoNextTick ==
  /\ pc # "update"
  /\ pc' \in {"update", "inject", "dispatch"} \ {pc}

\* run() calls tick() again as long as its loop condition holds, and a tick that has
\* started runs to its end: outside the resting states the control point moves on
Advance ==
  /\ pc # "update" \/ RunContinues
  /\ pc' \in {"update", "inject", "dispatch"} \ {pc}

FairSpec == Init /\ [][Next]_vars /\ WF_pc(Advance)

\* ----------------------------------------------------- the bundle-pair scenario
\* two orders of one restaurant created at 17:00 with dropoffs at most one grid unit
\* apart, and two couriers of capacity 2 on shift, placed on a line through the pickup
PairPickup == <<0, 0>>
PairDropoffs == {<<0, 0>>, <<1, 0>>, <<0, 1>>, <<0, 2>>, <<1, 2>>}
PairSpots == {0, 1, 3, 14, 15, 19, 20, 28, 29, 30, 31, 32, 35, 41, 42, 45}

PairOrderLists ==
  {<<NewOrder(PairPickup, dd[1], 0, 30), NewOrder(PairPickup, dd[2], 0, 30)>> :
     dd \in {p \in {<<0, 0>>, <<0, 2>>} \X PairDropoffs : get_distance(p[1], p[2]) <= 1}}

PairDriverLists ==
  {<<NewDriver(<<x1, 0>>, v1, 2, 0), NewDriver(<<x2, 0>>, "motorbike", 2, 0)>> :
     x1 \in PairSpots, x2 \in PairSpots, v1 \in {"motorbike", "car"}}

PairInit ==
  /\ strategy = "combinatorial"
  /\ current_time = 0
  /\ orders \in PairOrderLists
  /\ drivers \in PairDriverLists
  /\ master_orders_list = SortedByCreated(orders, Len(orders))
  /\ pending_orders = <<>>
  /\ completed_missions = <<>>
  /\ total_distance_traveled = 0
  /\ total_busy_driver_ticks = 0
  /\ total_driver_ticks = 0
  /\ drivers_activated = {}
  /\ recent_order_times = <<>>
  /\ batch_start_time = NoTime
  /\ assigned_in_tick = <<>>
  /\ distance_in_tick = 0
  /\ invoked_in_tick = "none"
  /\ call = NoCall
  /\ tsp_cache = EmptyCache
  /\ pc = "update"

PairSpec == PairInit /\ [][Next]_vars

\* a run under load: enough orders to reach HIGH_LOAD_THRESHOLD within one window. The
\* pickups lie on a grid 9 minutes apart (too far to bundle), but for orders 1 and 2,
\* which are 5 minutes apart; all but the last three orders are created at 17:01, the
\* others around the window's edges
LoadTarget == HIGH_LOAD_THRESHOLD * COMBINATORIAL_WINDOW_MINS

LoadPickup(i) == IF i = 2 THEN <<4, 0>> ELSE <<9 * (i % 4), 9 * (i \div 4)>>

LoadOrder(i, created) ==
  NewOrder(LoadPickup(i), <<LoadPickup(i)[1], LoadPickup(i)[2] + 1>>, created, 30)

LoadCreated(i, b, c) ==
  IF i < LoadTarget - 1 THEN 1
  ELSE IF i = LoadTarget - 1 THEN b
  ELSE IF i = LoadTarget THEN c
  ELSE 4

LoadOrderLists ==
  {[i \in 1..n |-> LoadOrder(i, LoadCreated(i, b, c))] :
     b \in {0, 1}, c \in {1, 4, 5}, n \in {LoadTarget, LoadTarget + 1}}

LoadDriverLists ==
  {<<NewDriver(<<0, 0>>, "motorbike", 1, 0), NewDriver(<<18, 9>>, "car", c2, a2)>> :
     c2 \in {1, 2}, a2 \in {0, COMBINATORIAL_WINDOW_MINS}}

LoadInit ==
  /\ strategy = "adaptive"
  /\ current_time = 0
  /\ orders \in LoadOrderLists
  /\ drivers \in LoadDriverLists
  /\ master_orders_list = SortedByCreated(orders, Len(orders))
  /\ pending_orders = <<>>
  /\ completed_missions = <<>>
  /\ total_distance_traveled = 0
  /\ total_busy_driver_ticks = 0
  /\ total_driver_ticks = 0
  /\ drivers_activated = {}
  /\ recent_order_times = <<>>
  /\ batch_start_time = NoTime
  /\ assigned_in_tick = <<>>
  /\ distance_in_tick = 0
  /\ invoked_in_tick = "none"
  /\ call = NoCall
  /\ tsp_cache = EmptyCache
  /\ pc = "update"

LoadSpec == LoadInit /\ [][Next]_vars

\* a run with orders out of reach: the first two orders are picked up 43 minutes from
\* the first courier and 40 from the second, too far to be delivered within
\* MAX_DELIVERY_TIME_MINS; a third order, if there is one, is next to the couriers
FarOrderLists ==
  {<<NewOrder(<<43, 0>>, <<43, 1>>, 0, 30), NewOrder(p2, <<43, 2>>, c2, 30)>> \o third :
     p2 \in {<<43, 0>>, <<43, 3>>}, c2 \in {0, 1},
     third \in {<<>>, <<NewOrder(<<1, 0>>, <<1, 1>>, 0, 30)>>}}

FarDriverLists ==
  {<<NewDriver(<<0, 0>>, "motorbike", c1, 0), NewDriver(<<3, 0>>, "car", c2, 0)>> :
     c1 \in {1, 2, 3}, c2 \in {0, 2}}

FarInit ==
  /\ strategy \in {"sequential", "combinatorial"}
  /\ current_time = 0
  /\ orders \in FarOrderLists
  /\ drivers \in FarDriverLists
  /\ master_orders_list = SortedByCreated(orders, Len(orders))
  /\ pending_orders = <<>>
  /\ completed_missions = <<>>
  /\ total_distance_traveled = 0
  /\ total_busy_driver_ticks = 0
  /\ total_driver_ticks = 0
  /\ drivers_activated = {}
  /\ recent_order_times = <<>>
  /\ batch_start_time = NoTime
  /\ assigned_in_tick = <<>>
  /\ distance_in_tick = 0
  /\ invoked_in_tick = "none"
  /\ call = NoCall
  /\ tsp_cache = EmptyCache
  /\ pc = "update"

FarSpec == FarInit /\ [][Next]_vars

\* a run with re-plans: one courier of capacity 3 or 4 at (0,0) (a second courier, if
\* it takes part at all, has capacity 0 or 1 and stands 9 minutes away); orders 1 and
\* 2 are created at 17:00, order 1 is picked up next to the courier, order 2 far away,
\* so the courier stays ACCRUING with order 1 in the vehicle while orders 3 and 4
\* arrive one after the other or together
ReplanOrderLists ==
  {<<NewOrder(<<1, 0>>, <<1, 6>>, 0, 30), NewOrder(<<8, 0>>, <<8, 1>>, 0, 30),
     NewOrder(<<2, 0>>, <<2, 1>>, c3, 30), NewOrder(p4, <<3, 1>>, c4, 30)>> :
     c3 \in {3, 4}, c4 \in {4, 5, 6}, p4 \in {<<2, 0>>, <<3, 0>>}}

ReplanDriverLists ==
  {<<NewDriver(<<0, 0>>, "motorbike", c1, 0), NewDriver(<<0, 9>>, "car", c2, 0)>> :
     c1 \in {3, 4}, c2 \in {0, 1}}

ReplanInit ==
  /\ strategy \in {"sequential", "combinatorial"}
  /\ current_time = 0
  /\ orders \in ReplanOrderLists
  /\ drivers \in ReplanDriverLists
  /\ master_orders_list = SortedByCreated(orders, Len(orders))
  /\ pending_orders = <<>>
  /\ completed_missions = <<>>
  /\ total_distance_traveled = 0
  /\ total_busy_driver_ticks = 0
  /\ total_driver_ticks = 0
  /\ drivers_activated = {}
  /\ recent_order_times = <<>>
  /\ batch_start_time = NoTime
  /\ assigned_in_tick = <<>>
  /\ distance_in_tick = 0
  /\ invoked_in_tick = "none"
  /\ call = NoCall
  /\ tsp_cache = EmptyCache
  /\ pc = "update"

ReplanSpec == ReplanInit /\ [][Next]_vars

\* ------------------------------------------------- direct calls of functions
\* the functions of dispatch.py and scoring.py called on their own, outside a run: the
\* simulator is at rest, and each step is one call with arguments from a bounded set
AtRest ==
  /\ strategy = "baseline"
  /\ current_time = 0
  /\ orders = <<>>
  /\ drivers = <<>>
  /\ master_orders_list = <<>>
  /\ pending_orders = <<>>
  /\ completed_missions = <<>>
  /\ total_distance_traveled = 0
  /\ total_busy_driver_ticks = 0
  /\ total_driver_ticks = 0
  /\ drivers_activated = {}
  /\ recent_order_times = <<>>
  /\ batch_start_time = NoTime
  /\ assigned_in_tick = <<>>
  /\ distance_in_tick = 0
  /\ invoked_in_tick = "none"
  /\ pc = "update"
  /\ tsp_cache = EmptyCache

StaysAtRest ==
  UNCHANGED <<strategy, current_time, orders, drivers, master_orders_list,
              pending_orders, completed_missions, total_distance_traveled,
              total_busy_driver_ticks, total_driver_ticks, drivers_activated,
              recent_order_times, batch_start_time, assigned_in_tick,
              distance_in_tick, invoked_in_tick, pc, tsp_cache>>

IdSeq(os) == [i \in DOMAIN os |-> i]

\* the orders a route is asked for: the i-th order of a call is one of a few on a
\* 3 x 3 grid, some sharing locations; up to MaxRouteOrders orders in a call
MaxRouteOrders == 3

RouteOrderChoices(i) ==
  IF i = 1 THEN {NewOrder(<<0, 0>>, <<2, 0>>, 0, 30), NewOrder(<<2, 0>>, <<0, 0>>, 0, 30),
                 NewOrder(<<1, 1>>, <<1, 1>>, 0, 30), NewOrder(<<0, 2>>, <<2, 2>>, 0, 30)}
  ELSE IF i = 2 THEN {NewOrder(<<1, 0>>, <<1, 2>>, 0, 30), NewOrder(<<2, 2>>, <<0, 0>>, 0, 30),
                      NewOrder(<<0, 0>>, <<2, 0>>, 0, 30), NewOrder(<<2, 1>>, <<0, 1>>, 0, 30)}
  ELSE IF i = 3 THEN {NewOrder(<<0, 1>>, <<2, 1>>, 0, 30), NewOrder(<<1, 2>>, <<1, 0>>, 0, 30),
                      NewOrder(<<2, 0>>, <<2, 2>>, 0, 30)}
  ELSE {NewOrder(<<1, 1>>, <<0, 2>>, 0, 30)}

RECURSIVE RouteOrderLists(_)
RouteOrderLists(n) ==
  IF n = 0 THEN {<<>>} ELSE {Append(s, o) : s \in RouteOrderLists(n - 1), o \in RouteOrderChoices(n)}

RouteStarts == {<<0, 0>>, <<1, 1>>, <<3, 2>>}

\* find_optimal_route(start_loc, orders, already_picked_up) on an empty cache
CallFindOptimalRoute ==
  /\ call = NoCall
  /\ \E n \in 0..MaxRouteOrders :
       \E os \in RouteOrderLists(n), start_loc \in RouteStarts :
         \E picked \in SUBSET DOMAIN os :
           call' = [fn |-> "find_optimal_route", os |-> os, start_loc |-> start_loc,
                    picked |-> picked,
                    result |-> find_optimal_route(EmptyCache, os, start_loc, IdSeq(os), picked)]
  /\ StaysAtRest

\* the orders bundles are asked for: pickups at a few spots, some within
\* MAX_PICKUP_DISTANCE_KM of each other (5 units apart), some not (10 and 15 apart);
\* up to MaxBundleOrders orders in a call, max_bundle_size up to MaxBundleArg
MaxBundleOrders == 4

MaxBundleArg == 3

BundleSpots == {<<0, 0>>, <<5, 0>>, <<0, 10>>}

BundleOrder(spot) == NewOrder(spot, <<spot[1], spot[2] + 1>>, 0, 30)

RECURSIVE BundleOrderLists(_)
BundleOrderLists(n) ==
  IF n = 0 THEN {<<>>}
  ELSE {Append(s, BundleOrder(spot)) : s \in BundleOrderLists(n - 1), spot \in BundleSpots}

\* generate_spatial_bundles(orders, max_bundle_size)
CallGenerateSpatialBundles ==
  /\ call = NoCall
  /\ \E n \in 0..MaxBundleOrders :
       \E os \in BundleOrderLists(n), k \in 1..MaxBundleArg :
         call' = [fn |-> "generate_spatial_bundles", os |-> os, max_bundle_size |-> k,
                  result |-> generate_spatial_bundles(os, IdSeq(os), k)]
  /\ StaysAtRest

\* _greedy_max_cut(orders, _build_distance_matrix(orders))
CallGreedyMaxCut ==
  /\ call = NoCall
  /\ \E n \in 0..MaxBundleOrders :
       \E os \in BundleOrderLists(n) :
         call' = [fn |-> "_greedy_max_cut", os |-> os,
                  result |-> _greedy_max_cut(os, IdSeq(os), <<>>, <<>>)]
  /\ StaysAtRest

\* the bundles a cost is asked for: one to MaxCostOrders orders created at 17:00 or
\* 17:15, some already picked up, on the route find_optimal_route gives from the
\* courier's position; the call comes at 17:00, 17:20 or 17:40
MaxCostOrders == 2

CostOrderChoices ==
  {NewOrder(p[1], p[2], c, 30) : p \in {<<<<2, 0>>, <<4, 0>>>>, <<<<0, 9>>, <<9, 9>>>>}, c \in {0, 15}}

RECURSIVE CostOrderLists(_)
CostOrderLists(n) ==
  IF n = 0 THEN {<<>>} ELSE {Append(s, o) : s \in CostOrderLists(n - 1), o \in CostOrderChoices}

CostDrivers == {NewDriver(loc, v[1], v[2], 0) : loc \in {<<0, 0>>, <<10, 0>>},
                                               v \in {<<"motorbike", 1>>, <<"car", 2>>}}

CostTimes == {0, 20, 40}

CostExisting == {0, 2}

CostBundle(os, r) == NewBundle(IdSeq(os), r.route, r.total_distance)

\* calculate_trip_cost(driver, bundle, current_time, existing_route_distance)
CallCalculateTripCost ==
  /\ call = NoCall
  /\ \E n \in 1..MaxCostOrders :
       \E os \in CostOrderLists(n), drv \in CostDrivers, now \in CostTimes, e \in CostExisting :
         \E picked \in SUBSET DOMAIN os :
           LET bundle == CostBundle(os, find_optimal_route(EmptyCache, os, drv.current_loc, IdSeq(os), picked))
           IN call' = [fn |-> "calculate_trip_cost", os |-> os, driver |-> drv, bundle |-> bundle,
                       current_time |-> now, existing_route_distance |-> e,
                       result |-> calculate_trip_cost(os, drv, bundle, now, e)]
  /\ StaysAtRest

\* the cost of a full vehicle: a courier at (0,0) with room for all of them carries all
\* but the last of one to MaxLoadedOrders orders of one restaurant at (0,0), the last one
\* is to be picked up there; the dropoffs are one minute away
MaxLoadedOrders == 6

LoadedOrders(n, c) ==
  [i \in 1..n |->
     IF i < n
     THEN [NewOrder(<<0, 0>>, <<i % 2, (i + 1) % 2>>, c, 30) EXCEPT !.status = "PICKED_UP", !.pickup_time = c]
     ELSE NewOrder(<<0, 0>>, <<i % 2, (i + 1) % 2>>, c, 30)]

LoadedDrivers(n) == {NewDriver(<<0, 0>>, v, cap, 0) : v \in {"motorbike", "car"}, cap \in {n, MaxLoadedOrders}}

CallCalculateTripCostLoaded ==
  /\ call = NoCall
  /\ \E n \in 1..MaxLoadedOrders :
       \E c \in {0, 15}, drv \in LoadedDrivers(n), now \in CostTimes, e \in CostExisting :
         LET os == LoadedOrders(n, c)
             bundle == CostBundle(os, find_optimal_route(EmptyCache, os, drv.current_loc, IdSeq(os),
                                                         {i \in DOMAIN os : os[i].status = "PICKED_UP"}))
         IN call' = [fn |-> "calculate_trip_cost", os |-> os, driver |-> drv, bundle |-> bundle,
                     current_time |-> now, existing_route_distance |-> e,
                     result |-> calculate_trip_cost(os, drv, bundle, now, e)]
  /\ StaysAtRest

FnInit == AtRest /\ call = NoCall

FnNext ==
  \/ CallFindOptimalRoute
  \/ CallGenerateSpatialBundles
  \/ CallGreedyMaxCut
  \/ CallCalculateTripCost
  \/ CallCalculateTripCostLoaded

FnSpec == FnInit /\ [][FnNext]_vars

\* ================================================================== claims
HasStop(route, o, kind) == \E i \in DOMAIN route : route[i].order_id = o /\ route[i].stop_type = kind
HasPickup(stops) == \E i \in DOMAIN stops : stops[i].stop_type = "PICKUP"
Holders(ds, o) == {d \in DriverIds : Contains(ds[d].assigned_orders, o)}
Routers(ds, o) == {d \in DriverIds : \E i \in DOMAIN ds[d].route : ds[d].route[i].order_id = o}
StatusRank(s) == IF s = "PENDING" THEN 0 ELSE IF s = "ASSIGNED" THEN 1 ELSE IF s = "PICKED_UP" THEN 2 ELSE 3
Delivered(o) == \E i \in DOMAIN completed_missions : completed_missions[i].order_id = o
EndOfTick == pc = "update"

\* C1: a courier's status changes only along the state machine: IDLE -> ACCRUING in a
\* dispatch that leaves it with orders, ACCRUING -> DELIVERING when the stop consumed is
\* the last remaining PICKUP, non-IDLE -> IDLE when the route is exhausted; in particular
\* never DELIVERING -> ACCRUING and never IDLE -> DELIVERING.
C1_StepOk(a, b) ==
  \/ a.status = b.status
  \/ /\ a.status = "IDLE" /\ b.status = "ACCRUING"
     /\ pc = "dispatch" /\ b.assigned_orders # <<>>
  \/ /\ a.status = "ACCRUING" /\ b.status = "DELIVERING"
     /\ pc = "update"
     /\ a.route[a.current_stop_index + 1].stop_type = "PICKUP"
     /\ RemainingStops(b) # <<>> /\ ~HasPickup(RemainingStops(b))
  \/ /\ a.status # "IDLE" /\ b.status = "IDLE"
     /\ pc = "update" /\ b.route = <<>>
     /\ a.current_stop_index + 1 = Len(a.route)

C1_StateMachine == [][\A d \in DriverIds : C1_StepOk(drivers[d], drivers'[d])]_vars

C1_Witness ==
  \E d \in DriverIds :
    /\ drivers[d].status = "DELIVERING"
    /\ \E i \in DOMAIN completed_missions : completed_missions[i].driver_id = d

\* C2: at the end of every tick the status agrees with the route: IDLE iff the route is
\* empty, DELIVERING iff the remaining stops are non-empty without a PICKUP, ACCRUING iff
\* the remaining stops contain a PICKUP.
C2_StateRouteAgreement ==
  EndOfTick =>
    \A d \in DriverIds :
      LET rem == RemainingStops(drivers[d])
      IN /\ drivers[d].status = "IDLE" <=> drivers[d].route = <<>>
         /\ drivers[d].status = "DELIVERING" <=> (rem # <<>> /\ ~HasPickup(rem))
         /\ drivers[d].status = "ACCRUING" <=> HasPickup(rem)

C2_Witness ==
  /\ EndOfTick
  /\ \E d \in DriverIds : drivers[d].status = "DELIVERING"
  /\ \E d \in DriverIds : drivers[d].status = "ACCRUING" /\ drivers[d].current_stop_index > 0

\* C3: an order's status never moves backwards along PENDING -> ASSIGNED -> PICKED_UP ->
\* DELIVERED, also for a PICKED_UP order whose ACCRUING courier is re-planned.
C3_MonotoneOrderState ==
  [][\A o \in OrderIds : StatusRank(orders'[o].status) >= StatusRank(orders[o].status)]_vars

\* C4: at the end of every tick a courier holds at most capacity orders, for every strategy
\* and every integer capacity.
C4_Capacity ==
  EndOfTick => \A d \in DriverIds : Len(drivers[d].assigned_orders) <= drivers[d].capacity

\* C5: in every courier's route every PICKUP has the DROPOFF of its order behind it and
\* none before it.
C5_Precedence ==
  EndOfTick =>
    \A d \in DriverIds :
      LET r == drivers[d].route
      IN \A i \in DOMAIN r :
           r[i].stop_type = "PICKUP" =>
             /\ \E j \in DOMAIN r : j > i /\ r[j].stop_type = "DROPOFF" /\ r[j].order_id = r[i].order_id
             /\ \A j \in DOMAIN r : (r[j].stop_type = "DROPOFF" /\ r[j].order_id = r[i].order_id) => i < j

C5_Witness ==
  /\ EndOfTick
  /\ \E d \in DriverIds :
       /\ Cardinality({i \in DOMAIN drivers[d].route : drivers[d].route[i].stop_type = "PICKUP"}) >= 2
       /\ drivers[d].current_stop_index > 0

\* C6: an order is in the assigned list of at most one courier (once) and its stops are in
\* the route of at most one courier.
C6_SingleHolder ==
  \A o \in OrderIds :
    /\ Cardinality(Holders(drivers, o)) <= 1
    /\ Cardinality(Routers(drivers, o)) <= 1
    /\ \A d \in DriverIds : Count(drivers[d].assigned_orders, o) <= 1

C6_Witness ==
  \E d1, d2 \in DriverIds :
    /\ d1 # d2
    /\ drivers[d1].assigned_orders # <<>>
    /\ drivers[d2].assigned_orders # <<>>
    /\ assigned_in_tick # <<>>
    /\ Len(completed_missions) > 0

\* C7: at the end of every tick each order is in exactly one of: master list, pending
\* queue, one courier's assigned list, completed_missions; completed_missions holds each
\* order at most once and exactly the DELIVERED orders.
C7_Places(o) ==
  Count(master_orders_list, o) + Count(pending_orders, o)
  + Cardinality({i \in DOMAIN completed_missions : completed_missions[i].order_id = o})
  + Cardinality(Holders(drivers, o))

C7_Conservation ==
  EndOfTick =>
    \A o \in OrderIds :
      /\ C7_Places(o) = 1
      /\ \A d \in DriverIds : Count(drivers[d].assigned_orders, o) <= 1
      /\ Delivered(o) <=> orders[o].status = "DELIVERED"

C7_Witness ==
  /\ EndOfTick
  /\ Len(completed_missions) > 0
  /\ pending_orders # <<>>
  /\ \E d \in DriverIds : drivers[d].assigned_orders # <<>>

\* C8: every order of the snapshot handed to a dispatch call is either returned once, then
\* ASSIGNED and in exactly one courier's list and route and out of the pending queue, or
\* not returned, still PENDING, in no courier's list and still in the pending queue.
C8_Outcome(o) ==
  \/ /\ Count(assigned_in_tick', o) = 1
     /\ orders'[o].status = "ASSIGNED"
     /\ Cardinality(Holders(drivers', o)) = 1
     /\ \A d \in Holders(drivers', o) :
          /\ Count(drivers'[d].assigned_orders, o) = 1
          /\ HasStop(drivers'[d].route, o, "PICKUP") /\ HasStop(drivers'[d].route, o, "DROPOFF")
     /\ Routers(drivers', o) = Holders(drivers', o)
     /\ ~Contains(pending_orders', o)
  \/ /\ ~Contains(assigned_in_tick', o)
     /\ orders'[o].status = "PENDING"
     /\ Holders(drivers', o) = {} /\ Routers(drivers', o) = {}
     /\ Count(pending_orders', o) = 1

C8_AssignOrLeavePending ==
  [][pc = "dispatch" =>
       /\ \A o \in Range(pending_orders) : C8_Outcome(o)
       /\ Range(assigned_in_tick') \subseteq Range(pending_orders)]_vars

C8_Witness ==
  /\ EndOfTick
  /\ assigned_in_tick # <<>>
  /\ pending_orders # <<>>
  /\ \E i \in DOMAIN pending_orders : orders[pending_orders[i]].created_time < current_time - 1

\* C9: a dispatch call leaves every courier that is DELIVERING at its start unchanged
\* (route, next-stop index, ETA, assigned orders, status), and the orders it holds too.
C9_DeliveringLocked ==
  [][pc = "dispatch" =>
       \A d \in DriverIds :
         drivers[d].status = "DELIVERING" =>
           /\ drivers'[d] = drivers[d]
           /\ \A o \in Range(drivers[d].assigned_orders) : orders'[o] = orders[o]]_vars

C9_Witness ==
  /\ EndOfTick
  /\ assigned_in_tick # <<>>
  /\ \E d \in DriverIds :
       /\ drivers[d].status = "DELIVERING"
       /\ Len(drivers[d].assigned_orders) < drivers[d].capacity
       /\ pending_orders # <<>>

\* C10: a courier whose available_from is later than the current time is IDLE with an
\* empty route and no orders.
C10_NotBeforeShift ==
  \A d \in DriverIds :
    drivers[d].available_from > current_time =>
      /\ drivers[d].status = "IDLE"
      /\ drivers[d].route = <<>>
      /\ drivers[d].assigned_orders = <<>>

C10_Witness ==
  /\ EndOfTick
  /\ batch_start_time = NoTime
  /\ pending_orders # <<>>
  /\ \E d \in DriverIds : drivers[d].available_from > current_time /\ drivers[d].capacity > 0


\* C11: in a tick whose pending queue is not empty, the baseline strategy calls its
\* dispatch routine unconditionally; every other strategy calls one exactly when the
\* batch window has elapsed (batch_start_time set and at least BATCH_WINDOW_MINS old) or
\* a pending order is urgent (deadline - now <= estimate / 3); every call clears
\* batch_start_time, also when it assigned nothing.
C11_WindowElapsed ==
  batch_start_time # NoTime /\ current_time - batch_start_time >= BATCH_WINDOW_MINS

C11_SomeUrgent ==
  \E i \in DOMAIN pending_orders :
    3 * (orders[pending_orders[i]].deadline - current_time)
      <= orders[pending_orders[i]].estimated_delivery_time_min

C11_Step ==
  pc = "dispatch" /\ pending_orders # <<>> =>
    /\ strategy = "baseline" => invoked_in_tick' = "baseline"
    /\ strategy # "baseline" =>
         (invoked_in_tick' # "none" <=> C11_WindowElapsed \/ C11_SomeUrgent)
    /\ invoked_in_tick' # "none" => batch_start_time' = NoTime

C11_BatchGate == [][C11_Step]_vars

\* a batching strategy was called because an order had become urgent, assigned nothing,
\* and the batch timer is cleared
C11_Witness ==
  /\ EndOfTick
  /\ invoked_in_tick \in {"sequential", "combinatorial"}
  /\ assigned_in_tick = <<>>
  /\ pending_orders # <<>>
  /\ batch_start_time = NoTime
  /\ \E i \in DOMAIN pending_orders :
       /\ orders[pending_orders[i]].created_time < current_time - 2
       /\ 3 * (orders[pending_orders[i]].deadline - (current_time - 1))
            <= orders[pending_orders[i]].estimated_delivery_time_min

\* C12: an order leaves the master list exactly once, in the injection of the first tick
\* whose current_time is >= its created_time and in no earlier one, and joins the pending
\* queue there; the pending queue is ordered by created_time with ties in input order;
\* an injection that moves an order sets batch_start_time to current_time only when it
\* was unset, and otherwise leaves it alone.
C12_Before(a, b) ==
  \/ orders[a].created_time < orders[b].created_time
  \/ orders[a].created_time = orders[b].created_time /\ a < b

C12_Moves(o) == Contains(master_orders_list, o) /\ ~Contains(master_orders_list', o)

C12_Step ==
  /\ \A o \in OrderIds :
       /\ Contains(master_orders_list', o) => Contains(master_orders_list, o)
       /\ C12_Moves(o) <=> /\ Contains(master_orders_list, o)
                           /\ pc = "inject"
                           /\ orders[o].created_time <= current_time
       /\ C12_Moves(o) => Count(pending_orders, o) = 0 /\ Count(pending_orders', o) = 1
       /\ ~C12_Moves(o) => Count(pending_orders', o) <= Count(pending_orders, o)
  /\ \A i, j \in DOMAIN pending_orders' :
       i < j => C12_Before(pending_orders'[i], pending_orders'[j])
  /\ pc = "inject" =>
       batch_start_time' = IF (\E o \in OrderIds : C12_Moves(o)) /\ batch_start_time = NoTime
                           THEN current_time ELSE batch_start_time

C12_Injection == [][C12_Step]_vars

\* an order created at the current minute has just joined an older pending order, and
\* the batch timer, set by an earlier injection, was left alone
C12_Witness ==
  /\ pc = "dispatch"
  /\ batch_start_time # NoTime
  /\ batch_start_time < current_time
  /\ \E i, j \in DOMAIN pending_orders :
       /\ i < j
       /\ orders[pending_orders[i]].created_time < current_time
       /\ orders[pending_orders[j]].created_time = current_time
  /\ master_orders_list = <<>>

\* C13: run() terminates: the clock moves only at the end of a tick and then by exactly
\* SIMULATION_SPEED_MINUTES; no tick starts once current_time >= SIMULATION_END_TIME or
\* every order is delivered; every run comes to rest, and it rests only where one of the
\* two holds (a run that halted anywhere else would never reach such a state); with no
\* orders it rests before the first tick with orders_delivered = 0 and drivers_used = 0.
C13_Done ==
  /\ pc = "update"
  /\ \/ current_time >= SIMULATION_END_TIME
     \/ \A o \in OrderIds : Delivered(o)

C13_Step ==
  /\ current_time' = IF pc = "dispatch" THEN current_time + SIMULATION_SPEED_MINUTES
                                        ELSE current_time
  /\ ~C13_Done

C13_Returned ==
  /\ orders = <<>> => /\ C13_Done
                      /\ current_time = 0
                      /\ get_results.orders_delivered = 0
                      /\ get_results.drivers_used = 0

C13_RunTerminates == [][C13_Step]_vars /\ []C13_Returned /\ <>[]C13_Done

\* a run stopped by the clock with an order undelivered, and a run stopped early because
\* every order was delivered, are both reached
C13_WitnessEndOfDay ==
  /\ C13_Done
  /\ current_time = SIMULATION_END_TIME
  /\ \E o \in OrderIds : ~Delivered(o)

C13_Witness ==
  /\ C13_Done
  /\ orders # <<>>
  /\ current_time < SIMULATION_END_TIME
  /\ total_driver_ticks = Len(drivers) * current_time

\* C14: a baseline dispatch takes the pending orders in queue order and gives each one,
\* as long as an IDLE courier on shift is left, to the nearest such courier not yet used
\* in this call, with the route <<pickup, dropoff>>; so the orders assigned in one call
\* go to pairwise different couriers, a courier never holds more than one order, and the
\* orders beyond the number of idle couriers stay pending.
C14_Idle == {d \in DriverIds : drivers[d].status = "IDLE" /\ drivers[d].available_from <= current_time}

C14_Holder(o) == CHOOSE d \in DriverIds : Contains(drivers'[d].assigned_orders, o)

C14_Dist(d, o) == get_distance(drivers[d].current_loc, orders[o].pickup_loc)

C14_Min(a, b) == IF a <= b THEN a ELSE b

C14_Step ==
  strategy = "baseline" =>
    /\ \A d \in DriverIds : Len(drivers'[d].assigned_orders) <= 1
    /\ pc = "dispatch" =>
         LET n == C14_Min(Len(pending_orders), Cardinality(C14_Idle))
         IN /\ assigned_in_tick' = SubSeq(pending_orders, 1, n)
            /\ pending_orders' = SubSeq(pending_orders, n + 1, Len(pending_orders))
            /\ \A k \in 1..n :
                 LET o == pending_orders[k]
                     d == C14_Holder(o)
                     used == {C14_Holder(pending_orders[j]) : j \in 1..(k - 1)}
                 IN /\ Holders(drivers', o) = {d}
                    /\ d \in C14_Idle \ used
                    /\ \A e \in C14_Idle \ used : C14_Dist(d, o) <= C14_Dist(e, o)
                    /\ drivers'[d].assigned_orders = <<o>>
                    /\ drivers'[d].route = <<PickupStop(orders, o), DropoffStop(orders, o)>>
                    /\ orders'[o].status = "ASSIGNED"
            /\ \A k \in (n + 1)..Len(pending_orders) :
                 /\ orders'[pending_orders[k]].status = "PENDING"
                 /\ Holders(drivers', pending_orders[k]) = {}

C14_Baseline == [][C14_Step]_vars

\* one baseline call has given the first two pending orders to two different couriers,
\* and the third order, for which no idle courier is left, waits
C14_Witness ==
  /\ EndOfTick
  /\ strategy = "baseline"
  /\ Len(assigned_in_tick) = 2
  /\ pending_orders # <<>>
  /\ \E d1, d2 \in DriverIds :
       /\ d1 # d2
       /\ drivers[d1].assigned_orders = <<assigned_in_tick[1]>>
       /\ drivers[d2].assigned_orders = <<assigned_in_tick[2]>>
  /\ \E i \in DOMAIN pending_orders :
       /\ orders[pending_orders[i]].created_time < current_time
       /\ orders[pending_orders[i]].status = "PENDING"

\* the dispatch call of the current tick, seen from the state before it
SequentialCalled ==
  /\ pc = "dispatch"
  /\ pending_orders # <<>>
  /\ strategy # "baseline"
  /\ _should_dispatch_batch(orders, pending_orders, batch_start_time, current_time)
  /\ StrategyMode(strategy, recent_order_times, current_time) = "sequential"

FiniteBids(bids) == {i \in DOMAIN bids : bids[i].cost < INF}

\* C15: in a sequential dispatch every order, in queue order, for which some courier
\* submits a finite bid is awarded to an eligible courier with spare capacity whose bid
\* is the lowest, the first such courier of the eligible list; a courier whose bid is
\* +infinity is never the winner of the bidding; the winner leaves the eligible list
\* iff it is at capacity after the award.
C15_OrderOk(st, st2, o, bids) ==
  FiniteBids(bids) # {} =>
    \E w \in FiniteBids(bids) :
      /\ \A j \in DOMAIN bids :
           /\ bids[w].cost <= bids[j].cost
           /\ j < w => bids[w].cost < bids[j].cost
      /\ Len(st.drivers[st.eligible[w]].assigned_orders) < st.drivers[st.eligible[w]].capacity
      /\ st2.drivers[st.eligible[w]].assigned_orders
           = Append(st.drivers[st.eligible[w]].assigned_orders, o)
      /\ \A e \in DriverIds : e # st.eligible[w] => st2.drivers[e] = st.drivers[e]
      /\ st2.orders[o].status = "ASSIGNED"
      /\ st2.assigned = Append(st.assigned, o)
      /\ st2.eligible =
           IF Len(st2.drivers[st.eligible[w]].assigned_orders) >= st.drivers[st.eligible[w]].capacity
           THEN SelectSeq(st.eligible, LAMBDA e : e # st.eligible[w])
           ELSE st.eligible

RECURSIVE C15_LoopOk(_, _, _)
C15_NextOk(st, st2, todo, now) ==
  /\ C15_OrderOk(st, st2, Head(todo), SequentialBids(st, Head(todo), now, 1, <<>>).bids)
  /\ C15_LoopOk(st2, Tail(todo), now)

C15_LoopOk(st, todo, now) ==
  IF todo = <<>>
  THEN st.drivers = drivers' /\ st.orders = orders' /\ st.assigned = assigned_in_tick'
  ELSE C15_NextOk(st, SequentialOrder(st, Head(todo), now), todo, now)

C15_LowestBidWins ==
  [][SequentialCalled =>
       C15_LoopOk(DispatchState(drivers, orders, current_time), pending_orders, current_time)]_vars

\* a sequential call is about to run in which, for some order, two couriers submit
\* different finite bids and the winner is at capacity after the award
C15_Contested(st, st2, o, bids) ==
  \E w, l \in FiniteBids(bids) :
    /\ bids[w].cost < bids[l].cost
    /\ Contains(st2.drivers[st.eligible[w]].assigned_orders, o)
    /\ Len(st2.drivers[st.eligible[w]].assigned_orders) = st.drivers[st.eligible[w]].capacity
    /\ ~Contains(st2.eligible, st.eligible[w])

RECURSIVE C15_SomeContested(_, _, _)
C15_NextContested(st, st2, todo, now) ==
  \/ C15_Contested(st, st2, Head(todo), SequentialBids(st, Head(todo), now, 1, <<>>).bids)
  \/ C15_SomeContested(st2, Tail(todo), now)

C15_SomeContested(st, todo, now) ==
  /\ todo # <<>>
  /\ C15_NextContested(st, SequentialOrder(st, Head(todo), now), todo, now)

C15_Witness ==
  /\ SequentialCalled
  /\ C15_SomeContested(DispatchState(drivers, orders, current_time), pending_orders, current_time)

\* C16: in a sequential dispatch an order for which no courier submits a finite bid goes
\* to the nearest IDLE courier of the eligible list, with the route <<pickup, dropoff>>,
\* when that list holds an IDLE courier; otherwise nothing changes for it: it keeps
\* status PENDING, no courier holds it and it stays in the pending queue.
C16_IdleEligible(st) == {d \in Range(st.eligible) : st.drivers[d].status = "IDLE"}

C16_Dist(st, d, o) == get_distance(st.drivers[d].current_loc, st.orders[o].pickup_loc)

C16_OrderOk(st, st2, o, bids) ==
  FiniteBids(bids) = {} =>
    IF C16_IdleEligible(st) # {}
    THEN \E d \in C16_IdleEligible(st) :
           /\ \A e \in C16_IdleEligible(st) : C16_Dist(st, d, o) <= C16_Dist(st, e, o)
           /\ st2.drivers[d].assigned_orders = <<o>>
           /\ st2.drivers[d].route = <<PickupStop(st.orders, o), DropoffStop(st.orders, o)>>
           /\ st2.drivers[d].status = "ACCRUING"
           /\ \A e \in DriverIds : e # d => st2.drivers[e] = st.drivers[e]
           /\ st2.orders[o].status = "ASSIGNED"
           /\ st2.assigned = Append(st.assigned, o)
    ELSE /\ st2.drivers = st.drivers
         /\ st2.orders = st.orders
         /\ st2.assigned = st.assigned
         /\ st2.orders[o].status = "PENDING"

RECURSIVE C16_LoopOk(_, _, _)
C16_NextOk(st, st2, todo, now) ==
  /\ C16_OrderOk(st, st2, Head(todo), SequentialBids(st, Head(todo), now, 1, <<>>).bids)
  /\ C16_LoopOk(st2, Tail(todo), now)

C16_LoopOk(st, todo, now) ==
  IF todo = <<>>
  THEN /\ st.drivers = drivers' /\ st.orders = orders'
       /\ \A i \in DOMAIN pending_orders :
            ~Contains(st.assigned, pending_orders[i]) =>
              /\ Contains(pending_orders', pending_orders[i])
              /\ orders'[pending_orders[i]].status = "PENDING"
              /\ Holders(drivers', pending_orders[i]) = {}
  ELSE C16_NextOk(st, SequentialOrder(st, Head(todo), now), todo, now)

C16_Fallback ==
  [][SequentialCalled =>
       C16_LoopOk(DispatchState(drivers, orders, current_time), pending_orders, current_time)]_vars

\* a sequential call is about to run in which an order gets no finite bid although an
\* IDLE courier with spare capacity bids for it, and the fallback places it
C16_Rejected(st, st2, o, bids) ==
  /\ FiniteBids(bids) = {}
  /\ \E d \in C16_IdleEligible(st) :
       /\ st.drivers[d].capacity >= 1
       /\ st2.drivers[d].assigned_orders = <<o>>

RECURSIVE C16_SomeRejected(_, _, _)
C16_NextRejected(st, st2, todo, now) ==
  \/ C16_Rejected(st, st2, Head(todo), SequentialBids(st, Head(todo), now, 1, <<>>).bids)
  \/ C16_SomeRejected(st2, Tail(todo), now)

C16_SomeRejected(st, todo, now) ==
  /\ todo # <<>>
  /\ C16_NextRejected(st, SequentialOrder(st, Head(todo), now), todo, now)

C16_Witness ==
  /\ SequentialCalled
  /\ C16_SomeRejected(DispatchState(drivers, orders, current_time), pending_orders, current_time)

\* an order placed by the fallback was delivered after its deadline, and an order nobody
\* could take is still pending at the end of a sequential call
C16_WitnessLate ==
  /\ strategy = "sequential"
  /\ \E o \in OrderIds :
       /\ orders[o].status = "DELIVERED"
       /\ orders[o].dropoff_time - orders[o].created_time > MAX_DELIVERY_TIME_MINS
       /\ orders[o].dropoff_time > orders[o].deadline

C16_WitnessPending ==
  /\ EndOfTick
  /\ invoked_in_tick = "sequential"
  /\ \E i \in DOMAIN pending_orders : orders[pending_orders[i]].status = "PENDING"

\* the combinatorial call of the current tick, seen from the state before it
CombinatorialCalled ==
  /\ pc = "dispatch"
  /\ pending_orders # <<>>
  /\ strategy # "baseline"
  /\ _should_dispatch_batch(orders, pending_orders, batch_start_time, current_time)
  /\ StrategyMode(strategy, recent_order_times, current_time) = "combinatorial"

CombinatorialStart == [DispatchState(drivers, orders, current_time) EXCEPT !.eligible = @] @@ [placed |-> <<>>]

\* the state after the fallback pass of an iteration without feasible pairs
FallbackPass(st, pending, now, cb) ==
  CombinatorialFallback([st EXCEPT !.cache = cb.cache, !.placed = <<>>], pending, now)

\* the state after the commit of an iteration with feasible pairs
CommitPass(st, now, cb) ==
  CombinatorialCommit([st EXCEPT !.cache = cb.cache], cb.bids[GreedyPick(cb.bids)], now)

\* the orders a courier holds in st2 and did not hold in st
NewlyHeld(st, st2, d) ==
  {o \in Range(st2.drivers[d].assigned_orders) : ~Contains(st.drivers[d].assigned_orders, o)}

\* C17: in every iteration of the combinatorial loop with at least one feasible
\* (bundle, courier) pair, exactly one courier receives orders, and what it receives is
\* a feasible pair of that iteration whose cost is the minimum over all the feasible
\* pairs and whose number of new orders is the largest among the pairs of that cost.
C17_CommitOk(st, st2, bids) ==
  \E w \in DOMAIN bids :
    /\ \A j \in DOMAIN bids :
         /\ bids[w].cost <= bids[j].cost
         /\ bids[w].cost = bids[j].cost => Len(bids[w].new_orders) >= Len(bids[j].new_orders)
    /\ NewlyHeld(st, st2, bids[w].driver) = Range(bids[w].new_orders)
    /\ st2.drivers[bids[w].driver].assigned_orders = bids[w].bundle.orders
    /\ st2.drivers[bids[w].driver].route = bids[w].bundle.route_sequence
    /\ \A e \in DriverIds : e # bids[w].driver => st2.drivers[e] = st.drivers[e]

RECURSIVE C17_LoopOk(_, _, _)
C17_AfterFallback(fb, pending, now) ==
  IF fb.placed = <<>>
  THEN fb.drivers = drivers' /\ fb.orders = orders'
  ELSE C17_LoopOk(fb, RemoveAll(pending, fb.placed), now)

C17_AfterCommit(st, st2, pending, now, cb) ==
  /\ C17_CommitOk(st, st2, cb.bids)
  /\ C17_LoopOk(st2, SelectSeq(pending, LAMBDA o : \A d \in DriverIds : o \notin NewlyHeld(st, st2, d)), now)

C17_IterOk(st, pending, now, cb) ==
  IF cb.bids = <<>>
  THEN C17_AfterFallback(FallbackPass(st, pending, now, cb), pending, now)
  ELSE C17_AfterCommit(st, CommitPass(st, now, cb), pending, now, cb)

C17_LoopOk(st, pending, now) ==
  IF st.eligible = <<>> \/ pending = <<>>
  THEN st.drivers = drivers' /\ st.orders = orders'
  ELSE C17_IterOk(st, pending, now, CombinatorialBids(st, pending, now))

C17_GreedyPick ==
  [][CombinatorialCalled => C17_LoopOk(CombinatorialStart, pending_orders, current_time)]_vars

\* a combinatorial call is about to run with an iteration in which two feasible pairs
\* with different numbers of new orders tie at the minimum cost
C17_Tie(bids) ==
  \E a, b \in DOMAIN bids :
    /\ \A j \in DOMAIN bids : bids[a].cost <= bids[j].cost
    /\ bids[a].cost = bids[b].cost
    /\ Len(bids[a].new_orders) > Len(bids[b].new_orders)

RECURSIVE C17_SomeTie(_, _, _)
C17_TieAfterFallback(fb, pending, now) ==
  fb.placed # <<>> /\ C17_SomeTie(fb, RemoveAll(pending, fb.placed), now)

C17_TieAfterCommit(st2, pending, now, cb) ==
  \/ C17_Tie(cb.bids)
  \/ C17_SomeTie(st2, RemoveAll(pending, cb.bids[GreedyPick(cb.bids)].new_orders), now)

C17_TieIter(st, pending, now, cb) ==
  IF cb.bids = <<>>
  THEN C17_TieAfterFallback(FallbackPass(st, pending, now, cb), pending, now)
  ELSE C17_TieAfterCommit(CommitPass(st, now, cb), pending, now, cb)

C17_SomeTie(st, pending, now) ==
  /\ st.eligible # <<>> /\ pending # <<>>
  /\ C17_TieIter(st, pending, now, CombinatorialBids(st, pending, now))

C17_Witness ==
  /\ CombinatorialCalled
  /\ C17_SomeTie(CombinatorialStart, pending_orders, current_time)

\* the courier that holds or has delivered order o
Served(d, o) ==
  \/ Contains(drivers[d].assigned_orders, o)
  \/ \E i \in DOMAIN completed_missions :
       completed_missions[i].order_id = o /\ completed_missions[i].driver_id = d

C18_PairFeasible(bids) ==
  \A d \in DriverIds : \E i \in DOMAIN bids : Len(bids[i].new_orders) = 2 /\ bids[i].driver = d

C18_Step ==
  /\ CombinatorialCalled
  /\ Len(pending_orders) = 2
  /\ C18_PairFeasible(CombinatorialBids(CombinatorialStart, pending_orders, current_time).bids)
  => \E d \in DriverIds : Range(drivers'[d].assigned_orders) = {1, 2}

C19_Shrinks(st2, pending, rest) ==
  /\ Len(rest) < Len(pending)
  /\ Range(rest) \subseteq Range(pending)
  /\ \A o \in Range(pending) \ Range(rest) : st2.orders[o].status = "ASSIGNED"

C19_Returns(st) == st.drivers = drivers' /\ st.orders = orders'

RECURSIVE C19_LoopOk(_, _, _)
C19_Continue(st2, pending, rest, now) ==
  /\ C19_Shrinks(st2, pending, rest)
  /\ C19_LoopOk(st2, rest, now)

C19_AfterFallback(fb, pending, now) ==
  IF fb.placed = <<>>
  THEN C19_Returns(fb)
  ELSE C19_Continue(fb, pending, PendingAfterFallback(pending, fb.placed), now)

C19_IterOk(st, pending, now, cb) ==
  IF cb.bids = <<>>
  THEN C19_AfterFallback(FallbackPass(st, pending, now, cb), pending, now)
  ELSE C19_Continue(CommitPass(st, now, cb), pending,
                    PendingAfterCommit(pending, cb.bids[GreedyPick(cb.bids)].new_orders), now)

C19_LoopOk(st, pending, now) ==
  IF st.eligible = <<>> \/ pending = <<>>
  THEN C19_Returns(st)
  ELSE C19_IterOk(st, pending, now, CombinatorialBids(st, pending, now))

C19_LoopTerminates ==
  [][CombinatorialCalled => C19_LoopOk(CombinatorialStart, pending_orders, current_time)]_vars

\* the iterations of a combinatorial call, in order: "commit", "fallback" (a pass that
\* placed orders), and the way the call ended
RECURSIVE C19_Trace(_, _, _)
C19_TraceAfterFallback(fb, pending, now) ==
  IF fb.placed = <<>> THEN <<"nothing placed">>
  ELSE <<"fallback">> \o C19_Trace(fb, PendingAfterFallback(pending, fb.placed), now)

C19_TraceIter(st, pending, now, cb) ==
  IF cb.bids = <<>>
  THEN C19_TraceAfterFallback(FallbackPass(st, pending, now, cb), pending, now)
  ELSE <<"commit">> \o C19_Trace(CommitPass(st, now, cb),
                                 PendingAfterCommit(pending, cb.bids[GreedyPick(cb.bids)].new_orders), now)

C19_Trace(st, pending, now) ==
  IF st.eligible = <<>> THEN <<"no courier">>
  ELSE IF pending = <<>> THEN <<"no order">>
  ELSE C19_TraceIter(st, pending, now, CombinatorialBids(st, pending, now))

C19_TraceNow == C19_Trace(CombinatorialStart, pending_orders, current_time)

\* a combinatorial call is about to run whose iterations include both a commit of a
\* greedy pick and a fallback pass that places orders
C19_Witness ==
  /\ CombinatorialCalled
  /\ \E i, j \in DOMAIN C19_TraceNow : C19_TraceNow[i] = "commit" /\ C19_TraceNow[j] = "fallback"

\* C20: a dispatch of the adaptive strategy runs the combinatorial routine if the
\* number of orders already injected and created less than COMBINATORIAL_WINDOW_MINS
\* minutes before the current time, divided by COMBINATORIAL_WINDOW_MINS, is at least
\* HIGH_LOAD_THRESHOLD, and the sequential routine otherwise; the couriers and orders
\* after the step are the result of that routine. (An order created exactly
\* COMBINATORIAL_WINDOW_MINS minutes ago is outside the window.)
C20_Injected(o) == ~Contains(master_orders_list, o)

C20_RecentCount ==
  Cardinality({o \in OrderIds : /\ C20_Injected(o)
                                /\ current_time - orders[o].created_time < COMBINATORIAL_WINDOW_MINS})

\* order_rate >= HIGH_LOAD_THRESHOLD, with order_rate = count / window
C20_HighLoad == C20_RecentCount >= HIGH_LOAD_THRESHOLD * COMBINATORIAL_WINDOW_MINS

C20_AdaptiveDispatches ==
  /\ pc = "dispatch"
  /\ strategy = "adaptive"
  /\ pending_orders # <<>>
  /\ _should_dispatch_batch(orders, pending_orders, batch_start_time, current_time)

C20_Ran(res) ==
  /\ drivers' = res.drivers
  /\ orders' = res.orders
  /\ assigned_in_tick' = res.assigned

C20_Step ==
  C20_AdaptiveDispatches =>
    IF C20_HighLoad
    THEN /\ invoked_in_tick' = "combinatorial"
         /\ C20_Ran(run_combinatorial(drivers, orders, pending_orders, current_time))
    ELSE /\ invoked_in_tick' = "sequential"
         /\ C20_Ran(run_sequential(drivers, orders, pending_orders, current_time))

C20_AdaptiveMode == [][C20_Step]_vars

\* an adaptive dispatch has just run the combinatorial routine with exactly
\* HIGH_LOAD_THRESHOLD * COMBINATORIAL_WINDOW_MINS orders inside the window and one
\* injected order outside it
C20_Witness ==
  /\ EndOfTick
  /\ strategy = "adaptive"
  /\ invoked_in_tick = "combinatorial"
  /\ assigned_in_tick # <<>>
  /\ Cardinality({o \in OrderIds : /\ C20_Injected(o)
                                   /\ current_time - 1 - orders[o].created_time < COMBINATORIAL_WINDOW_MINS})
       = HIGH_LOAD_THRESHOLD * COMBINATORIAL_WINDOW_MINS
  /\ \E o \in OrderIds : C20_Injected(o) /\ current_time - 1 - orders[o].created_time = COMBINATORIAL_WINDOW_MINS

\* an adaptive dispatch has just run the sequential routine although as many orders
\* as the threshold asks for have been injected, one of them created exactly
\* COMBINATORIAL_WINDOW_MINS minutes before the dispatch
C20_WitnessBelow ==
  /\ EndOfTick
  /\ strategy = "adaptive"
  /\ invoked_in_tick = "sequential"
  /\ Cardinality({o \in OrderIds : C20_Injected(o)}) = HIGH_LOAD_THRESHOLD * COMBINATORIAL_WINDOW_MINS
  /\ Cardinality({o \in OrderIds : /\ C20_Injected(o)
                                   /\ current_time - 1 - orders[o].created_time < COMBINATORIAL_WINDOW_MINS})
       = HIGH_LOAD_THRESHOLD * COMBINATORIAL_WINDOW_MINS - 1
  /\ \E o \in OrderIds : C20_Injected(o) /\ current_time - 1 - orders[o].created_time = COMBINATORIAL_WINDOW_MINS

\* the length of a planned route walked from loc
RECURSIVE C21_RouteDistance(_, _)
C21_RouteDistance(loc, route) ==
  IF route = <<>> THEN 0
  ELSE get_distance(loc, Head(route).location) + C21_RouteDistance(Head(route).location, Tail(route))

\* what a courier's planned route has grown by in the step, measured against its
\* existing route distance E at the entry of the call
C21_Added(d) ==
  IF drivers'[d] = drivers[d] THEN 0
  ELSE C21_RouteDistance(drivers'[d].current_loc, drivers'[d].route)
       - DispatchState(drivers, orders, current_time).E[d]

RECURSIVE C21_Sum(_)
C21_Sum(d) == IF d = 0 THEN 0 ELSE C21_Added(d) + C21_Sum(d - 1)

\* C21: the distance a sequential or combinatorial dispatch call returns is the sum,
\* over the couriers the call changed, of the courier's full planned route distance
\* after the call minus its existing route distance at the entry of the call.
C21_Step ==
  /\ pc = "dispatch"
  /\ invoked_in_tick' \in {"sequential", "combinatorial"}
  => distance_in_tick' = C21_Sum(Len(drivers))

C21_MarginalDistance == [][C21_Step]_vars

\* C22: in every state of a run get_results reports drivers_used equal to the number
\* of couriers in drivers_activated, and active_driver_efficiency equal to
\* orders_delivered / drivers_used, or 0 when drivers_used is 0 (the efficiency is
\* held in hundredths).
C22_Results ==
  /\ get_results.drivers_used = Cardinality(drivers_activated)
  /\ IF get_results.drivers_used = 0
     THEN get_results.active_driver_efficiency = 0
     ELSE get_results.active_driver_efficiency * get_results.drivers_used
            = 100 * get_results.orders_delivered

\* the stops a route for the orders of os has to make: a DROPOFF per order, and a PICKUP
\* per order not yet picked up
C23_Required(os, picked) ==
  {<<o, "DROPOFF">> : o \in DOMAIN os} \cup {<<o, "PICKUP">> : o \in DOMAIN os \ picked}

C23_Loc(os, s) == IF s[2] = "PICKUP" THEN os[s[1]].pickup_loc ELSE os[s[1]].dropoff_loc

\* a stop may come next unless it is the DROPOFF of an order whose PICKUP is still to come
C23_MayComeNext(todo, s) == s[2] = "PICKUP" \/ <<s[1], "PICKUP">> \notin todo

C23_Least(S) == CHOOSE v \in S : \A w \in S : v <= w

\* the least total distance, from loc, over all the orderings of the stops of todo in
\* which every PICKUP precedes the DROPOFF of its order
RECURSIVE C23_MinDistance(_, _, _)
C23_MinDistance(os, todo, loc) ==
  IF todo = {} THEN 0
  ELSE C23_Least({get_distance(loc, C23_Loc(os, s)) + C23_MinDistance(os, todo \ {s}, C23_Loc(os, s)) :
                    s \in {t \in todo : C23_MayComeNext(todo, t)}})

\* C23: for every start, every non-empty list of orders and every already-picked-up
\* subset, the distance find_optimal_route returns on a cache miss is the least total
\* distance over all precedence-respecting orderings of the required stops, and the
\* returned stop sequence, walked from the start, has exactly that length.
C23_Optimal ==
  call.fn = "find_optimal_route" /\ call.os # <<>> =>
    /\ call.result.total_distance = C23_MinDistance(call.os, C23_Required(call.os, call.picked), call.start_loc)
    /\ C21_RouteDistance(call.start_loc, call.result.route) = call.result.total_distance

\* a call for three orders, one already picked up, has returned a route in which the
\* courier visits another order's stop between a PICKUP and its DROPOFF
C23_Witness ==
  /\ call.fn = "find_optimal_route"
  /\ Len(call.os) = 3
  /\ Cardinality(call.picked) = 1
  /\ Len(call.result.route) = 5
  /\ \E i, j \in DOMAIN call.result.route :
       /\ j > i + 1
       /\ call.result.route[i].order_id = call.result.route[j].order_id
       /\ call.result.route[i].stop_type = "PICKUP"

C24_Count(route, o, kind) ==
  Cardinality({i \in DOMAIN route : route[i].order_id = o /\ route[i].stop_type = kind})

\* C24: a route returned by find_optimal_route for a non-empty list of orders has
\* exactly one DROPOFF per order, exactly one PICKUP per order not marked as picked up
\* and none for the others, no other stop, each stop at the location of its order, and
\* every PICKUP before the DROPOFF of its order; for no orders the result is the empty
\* route with distance 0.
C24_RouteOk(os, picked, route) ==
  /\ \A o \in DOMAIN os :
       /\ C24_Count(route, o, "DROPOFF") = 1
       /\ C24_Count(route, o, "PICKUP") = IF o \in picked THEN 0 ELSE 1
  /\ \A i \in DOMAIN route :
       /\ route[i].order_id \in DOMAIN os
       /\ route[i].stop_type \in {"PICKUP", "DROPOFF"}
       /\ route[i].location = IF route[i].stop_type = "PICKUP"
                              THEN os[route[i].order_id].pickup_loc
                              ELSE os[route[i].order_id].dropoff_loc
  /\ \A i, j \in DOMAIN route :
       /\ route[i].order_id = route[j].order_id
       /\ route[i].stop_type = "PICKUP" /\ route[j].stop_type = "DROPOFF"
       => i < j

C24_RouteStructure ==
  call.fn = "find_optimal_route" =>
    IF call.os = <<>>
    THEN call.result.route = <<>> /\ call.result.total_distance = 0
    ELSE C24_RouteOk(call.os, call.picked, call.result.route)

\* a call for two orders, the second already picked up, has returned a route that
\* starts with the DROPOFF of the second order and has three stops
C24_Witness ==
  /\ call.fn = "find_optimal_route"
  /\ Len(call.os) = 2
  /\ call.picked = {2}
  /\ Len(call.result.route) = 3
  /\ call.result.route[1].order_id = 2
  /\ call.result.route[1].stop_type = "DROPOFF"

\* a call without orders has returned the empty route
C24_WitnessEmpty ==
  /\ call.fn = "find_optimal_route"
  /\ call.os = <<>>
  /\ call.result.route = <<>>

\* ---------------------------------------------------------------------- C25
\* the stops the route of a cache key has to make
C25_Required(k) == {<<o, "DROPOFF">> : o \in k[2]} \cup {<<o, "PICKUP">> : o \in k[2] \ k[3]}

\* an entry computed during the call that starts in this state: its start is the position
\* of a courier now, its picked-up orders are picked up now, and its distance is the
\* least one from that position
C25_ComputedNow(k, entry) ==
  /\ \E d \in DriverIds : drivers[d].current_loc = k[1]
  /\ k[3] \subseteq {o \in k[2] : orders[o].status = "PICKED_UP"}
  /\ entry.total_distance = C23_MinDistance(orders, C25_Required(k), k[1])

C25_Step ==
  SequentialCalled \/ CombinatorialCalled =>
    \A k \in DOMAIN tsp_cache' : C25_ComputedNow(k, tsp_cache'[k])

\* C25: every sequential or combinatorial call, also one made through adaptive, starts
\* with an empty TSP cache: every entry the cache holds when the call returns was
\* computed during that call, for a courier's position and the picked-up status at that
\* call, so nothing computed during an earlier call can be returned.
C25_FreshCache == [][C25_Step]_vars

\* a call is about to start while the cache still holds an entry of an earlier call,
\* computed for a position no courier is at any more
C25_Witness ==
  /\ SequentialCalled \/ CombinatorialCalled
  /\ \E k \in DOMAIN tsp_cache : \A d \in DriverIds : drivers[d].current_loc # k[1]

\* ---------------------------------------------------------------------- C26
C26_BundlesCalled == call.fn = "generate_spatial_bundles"

\* C26: for every list of orders and every max_bundle_size k >= 1, every bundle
\* generate_spatial_bundles returns is a non-empty list of distinct input orders with
\* at least 1 and at most k orders.
C26_BundleSizes ==
  C26_BundlesCalled =>
    \A i \in DOMAIN call.result :
      /\ Range(call.result[i]) \subseteq DOMAIN call.os
      /\ Cardinality(Range(call.result[i])) = Len(call.result[i])
      /\ 1 <= Len(call.result[i])
      /\ Len(call.result[i]) <= call.max_bundle_size

\* ---------------------------------------------------------------------- C27
C27_Ids(bundle) == Range(bundle)

C27_Nearby(os, a, b) == 7 * get_distance(os[a].pickup_loc, os[b].pickup_loc) <= MaxPickupDistTimes7

\* C27: generate_spatial_bundles returns every single input order as a bundle of one
\* and every pair of input orders with pickups no more than MAX_PICKUP_DISTANCE_KM apart
\* as a bundle of two, and no two returned bundles have the same set of order ids.
C27_SinglesAndPairs ==
  C26_BundlesCalled =>
    /\ \A o \in DOMAIN call.os :
         \E i \in DOMAIN call.result : Len(call.result[i]) = 1 /\ C27_Ids(call.result[i]) = {o}
    /\ \A a, b \in DOMAIN call.os :
         a < b /\ C27_Nearby(call.os, a, b) =>
           \E i \in DOMAIN call.result : Len(call.result[i]) = 2 /\ C27_Ids(call.result[i]) = {a, b}
    /\ \A i, j \in DOMAIN call.result :
         i # j => C27_Ids(call.result[i]) # C27_Ids(call.result[j])

\* a call for four orders, with a pair of pickups within reach and a pair out of reach,
\* has returned the near pair, not the far pair, and every single order
C27_Witness ==
  /\ C26_BundlesCalled
  /\ Len(call.os) = 4
  /\ \E a, b \in DOMAIN call.os :
       /\ a < b /\ ~C27_Nearby(call.os, a, b)
       /\ \A i \in DOMAIN call.result : C27_Ids(call.result[i]) # {a, b}
  /\ \E a, b \in DOMAIN call.os :
       /\ a < b /\ C27_Nearby(call.os, a, b)
       /\ \E i \in DOMAIN call.result : C27_Ids(call.result[i]) = {a, b}
  /\ Len(call.result) > 4

\* ---------------------------------------------------------------------- C28
C28_CutCalled == call.fn = "_greedy_max_cut"

RECURSIVE C28_Sum(_, _, _)
C28_Sum(os, pairs, acc) ==
  IF pairs = {} THEN acc
  ELSE LET p == CHOOSE q \in pairs : TRUE
       IN C28_Sum(os, pairs \ {p}, acc + PickupDistance(os, p[1], p[2]))

\* the sum of the distances between orders of different groups
C28_Cut(os, a, b) == C28_Sum(os, Range(a) \X Range(b), 0)

\* the sum of all pairwise distances
C28_Total(os) == C28_Sum(os, {p \in (DOMAIN os) \X (DOMAIN os) : p[1] < p[2]}, 0)

\* C28: for every group of at least two orders, the two groups _greedy_max_cut returns
\* partition the input, and the distances between orders in different groups add up to
\* at least half of the sum of all pairwise distances.
C28_HalfApproximation ==
  C28_CutCalled /\ Len(call.os) >= 2 =>
    /\ Range(call.result.a) \cup Range(call.result.b) = DOMAIN call.os
    /\ Len(call.result.a) + Len(call.result.b) = Len(call.os)
    /\ 2 * C28_Cut(call.os, call.result.a, call.result.b) >= C28_Total(call.os)

\* ---------------------------------------------------------------------- C29
C29_CostCalled == call.fn = "calculate_trip_cost"

C29_StopLoc(start, route, i) == IF i = 0 THEN start ELSE route[i].location

\* the time at which the i-th stop of the projected walk is done: travel time plus
\* SERVICE_TIME_MINS for every stop up to it
RECURSIVE C29_StopTime(_, _, _, _)
C29_StopTime(start, route, now, i) ==
  IF i = 0 THEN now
  ELSE C29_StopTime(start, route, now, i - 1)
       + get_travel_time(C29_StopLoc(start, route, i - 1), route[i].location) + SERVICE_TIME_MINS

C29_OverCapacity == Len(call.bundle.orders) > call.driver.capacity

C29_LateDropoff ==
  \E i \in DOMAIN call.bundle.route_sequence :
    /\ call.bundle.route_sequence[i].stop_type = "DROPOFF"
    /\ C29_StopTime(call.driver.current_loc, call.bundle.route_sequence, call.current_time, i)
         - call.os[call.bundle.route_sequence[i].order_id].created_time > MAX_DELIVERY_TIME_MINS

\* C29: calculate_trip_cost returns +infinity exactly when the bundle has more orders
\* than the courier's capacity or some DROPOFF of the projected walk (from the courier's
\* position at current_time, travel time plus service time per stop) is done more than
\* MAX_DELIVERY_TIME_MINS after its order was created; otherwise the cost is finite.
C29_InfiniteCost ==
  C29_CostCalled =>
    /\ call.result = INF <=> (C29_OverCapacity \/ C29_LateDropoff)
    /\ call.result # INF => call.result \in Int /\ call.result < INF /\ call.result > -INF

\* a courier with room for both orders of a bundle got +infinity because the second
\* DROPOFF of the walk, not the first, comes too late
C29_Witness ==
  /\ C29_CostCalled
  /\ Len(call.bundle.orders) = 2
  /\ ~C29_OverCapacity
  /\ call.result = INF
  /\ \E i \in DOMAIN call.bundle.route_sequence :
       /\ call.bundle.route_sequence[i].stop_type = "DROPOFF"
       /\ C29_StopTime(call.driver.current_loc, call.bundle.route_sequence, call.current_time, i)
            - call.os[call.bundle.route_sequence[i].order_id].created_time <= MAX_DELIVERY_TIME_MINS

\* a call returned a finite cost
C29_WitnessFinite ==
  /\ C29_CostCalled
  /\ Len(call.bundle.orders) = 2
  /\ call.result # INF

\* ---------------------------------------------------------------------- C30
\* the tick at which an order joined the pending queue: ticks are one minute apart from
\* 17:00 on, so an order is injected at the minute of its creation
C30_Arrival(o) == orders[o].created_time

\* C30: under a non-baseline strategy, whenever the pending queue is non-empty at the
\* end of a tick, batch_start_time is set and is the arrival time of the first order
\* still waiting, also after a dispatch call that left orders unassigned.
C30_BatchTimerSet ==
  EndOfTick /\ strategy # "baseline" /\ pending_orders # <<>> =>
    /\ batch_start_time # NoTime
    /\ batch_start_time = C30_Arrival(pending_orders[1])

\* ---------------------------------------------------------------------- C31
\* a dispatch call of this tick has left order o in the pending queue
C31_Left(o) ==
  /\ EndOfTick
  /\ strategy # "baseline"
  /\ invoked_in_tick # "none"
  /\ Contains(pending_orders, o)

\* a dispatch call is about to be made with order o in its snapshot
C31_Offered(o) ==
  /\ SequentialCalled \/ CombinatorialCalled
  /\ Contains(pending_orders, o)

\* C31: under a non-baseline strategy an order left in the pending queue by a dispatch
\* call is offered again at a later tick: if the tick loop goes on, a dispatch call is
\* eventually made with that order in its snapshot, also when no further order arrives.
\* (Every order here turns urgent long before SIMULATION_END_TIME, so the loop goes on
\* long enough whenever it goes on after the call.)
C31_OfferedAgain ==
  \A o \in 1..NumOrders : (C31_Left(o) /\ RunContinues) ~> C31_Offered(o)

\* a dispatch call is about to be made for an order that an earlier call left pending:
\* the batch timer was cleared by that call, nothing has arrived since and nothing will
C31_Witness ==
  /\ \E o \in OrderIds : C31_Offered(o)
  /\ batch_start_time = NoTime
  /\ master_orders_list = <<>>

\* ---------------------------------------------------------------------- C32
C32_Below(st, d) == Len(st.drivers[d].assigned_orders) < st.drivers[d].capacity

\* the IDLE couriers of the eligible list; with below, only those below capacity
C32_Idle(st, below) ==
  {d \in Range(st.eligible) : st.drivers[d].status = "IDLE" /\ (below => C32_Below(st, d))}

C32_Accruing(st) ==
  {d \in Range(st.eligible) : st.drivers[d].status = "ACCRUING" /\ C32_Below(st, d)}

C32_Nearest(st, ds, d, o) ==
  d \in ds /\ \A e \in ds : C16_Dist(st, d, o) <= C16_Dist(st, e, o)

\* order o went to courier d and to nobody else; d left the eligible list iff it is now
\* at capacity
C32_Placed(st, st2, d, o) ==
  /\ \A e \in DriverIds : e # d => st2.drivers[e] = st.drivers[e]
  /\ st2.drivers[d].status = "ACCRUING"
  /\ st2.orders[o].status = "ASSIGNED"
  /\ st2.assigned = Append(st.assigned, o)
  /\ st2.placed = Append(st.placed, o)
  /\ st2.eligible = IF Len(st2.drivers[d].assigned_orders) >= st2.drivers[d].capacity
                    THEN SelectSeq(st.eligible, LAMBDA e : e # d) ELSE st.eligible

C32_Simple(st, st2, d, o) ==
  /\ st2.drivers[d].assigned_orders = <<o>>
  /\ st2.drivers[d].route = <<PickupStop(st.orders, o), DropoffStop(st.orders, o)>>

\* the stops the route of courier d has to make for the orders it holds in st2
C32_Stops(st, st2, d) ==
  C25_Required(<<st.drivers[d].current_loc, Range(st2.drivers[d].assigned_orders),
                 AlreadyPickedUp(st.orders, st.drivers[d])>>)

\* courier d keeps its orders, gets o, and has a shortest route over all of them
C32_Replanned(st, st2, d, o) ==
  /\ st2.drivers[d].assigned_orders = st.drivers[d].assigned_orders \o <<o>>
  /\ {<<st2.drivers[d].route[i].order_id, st2.drivers[d].route[i].stop_type>> :
        i \in DOMAIN st2.drivers[d].route} = C32_Stops(st, st2, d)
  /\ Len(st2.drivers[d].route) = Cardinality(C32_Stops(st, st2, d))
  /\ C21_RouteDistance(st.drivers[d].current_loc, st2.drivers[d].route)
       = C23_MinDistance(st.orders, C32_Stops(st, st2, d), st.drivers[d].current_loc)

C32_OrderOk(st, st2, o, below) ==
  IF C32_Idle(st, below) # {}
  THEN \E d \in DriverIds :
         C32_Nearest(st, C32_Idle(st, below), d, o) /\ C32_Placed(st, st2, d, o) /\ C32_Simple(st, st2, d, o)
  ELSE IF C32_Accruing(st) # {}
  THEN \E d \in DriverIds :
         C32_Nearest(st, C32_Accruing(st), d, o) /\ C32_Placed(st, st2, d, o) /\ C32_Replanned(st, st2, d, o)
  ELSE /\ st2.drivers = st.drivers /\ st2.orders = st.orders
       /\ st2.assigned = st.assigned /\ st2.eligible = st.eligible

\* the fallback pass, order by order, up to the state fb it ends in
RECURSIVE C32_PassOk(_, _, _, _, _)
C32_PassNext(st, st2, todo, now, fb, below) ==
  /\ C32_OrderOk(st, st2, Head(todo), below)
  /\ C32_PassOk(st2, Tail(todo), now, fb, below)

C32_PassOk(st, todo, now, fb, below) ==
  IF todo = <<>> \/ st.eligible = <<>>
  THEN st.drivers = fb.drivers /\ st.orders = fb.orders /\ st.placed = fb.placed
  ELSE C32_PassNext(st, CombinatorialFallbackOrder(st, Head(todo), now), todo, now, fb, below)

\* every iteration of the call without feasible pairs
RECURSIVE C32_LoopOk(_, _, _, _)
C32_AfterFallback(st, fb, pending, now, cb, below) ==
  /\ C32_PassOk([st EXCEPT !.cache = cb.cache, !.placed = <<>>], pending, now, fb, below)
  /\ fb.placed # <<>> => C32_LoopOk(fb, PendingAfterFallback(pending, fb.placed), now, below)

C32_IterOk(st, pending, now, cb, below) ==
  IF cb.bids = <<>>
  THEN C32_AfterFallback(st, FallbackPass(st, pending, now, cb), pending, now, cb, below)
  ELSE C32_LoopOk(CommitPass(st, now, cb),
                  PendingAfterCommit(pending, cb.bids[GreedyPick(cb.bids)].new_orders), now, below)

C32_LoopOk(st, pending, now, below) ==
  IF st.eligible = <<>> \/ pending = <<>>
  THEN C19_Returns(st)
  ELSE C32_IterOk(st, pending, now, CombinatorialBids(st, pending, now), below)

\* C32 as stated: in an iteration without feasible pairs every still-pending order, in
\* order, goes to the nearest IDLE courier of the eligible list with the route
\* <<pickup, dropoff>> if the list holds an IDLE courier, and only otherwise to the
\* nearest eligible ACCRUING courier below capacity, re-planned over all its orders and
\* the new one; the courier leaves the eligible list iff it is then at capacity.
C32_FallbackAnyIdle ==
  [][CombinatorialCalled => C32_LoopOk(CombinatorialStart, pending_orders, current_time, FALSE)]_vars

\* C32, amended: the IDLE couriers considered are those of the eligible list that are
\* below capacity; an IDLE courier of capacity 0 is passed over, and with no other IDLE
\* courier the order goes to the nearest eligible ACCRUING courier below capacity.
C32_Fallback ==
  [][CombinatorialCalled => C32_LoopOk(CombinatorialStart, pending_orders, current_time, TRUE)]_vars

\* the case of interest: an IDLE courier of the eligible list is at capacity, no other
\* IDLE courier is eligible, and the order goes to an ACCRUING courier that keeps the
\* order it had
C32_Case(st, st2, o) ==
  /\ C32_Idle(st, FALSE) # {}
  /\ C32_Idle(st, TRUE) = {}
  /\ \E d \in C32_Accruing(st) : Len(st2.drivers[d].assigned_orders) = 2 /\ st2.drivers[d].route[1].order_id # o

RECURSIVE C32_PassSome(_, _, _)
C32_PassSomeNext(st, st2, todo, now) ==
  C32_Case(st, st2, Head(todo)) \/ C32_PassSome(st2, Tail(todo), now)

C32_PassSome(st, todo, now) ==
  /\ todo # <<>> /\ st.eligible # <<>>
  /\ C32_PassSomeNext(st, CombinatorialFallbackOrder(st, Head(todo), now), todo, now)

RECURSIVE C32_LoopSome(_, _, _)
C32_AfterFallbackSome(st, fb, pending, now, cb) ==
  \/ C32_PassSome([st EXCEPT !.cache = cb.cache, !.placed = <<>>], pending, now)
  \/ fb.placed # <<>> /\ C32_LoopSome(fb, PendingAfterFallback(pending, fb.placed), now)

C32_IterSome(st, pending, now, cb) ==
  IF cb.bids = <<>>
  THEN C32_AfterFallbackSome(st, FallbackPass(st, pending, now, cb), pending, now, cb)
  ELSE C32_LoopSome(CommitPass(st, now, cb),
                    PendingAfterCommit(pending, cb.bids[GreedyPick(cb.bids)].new_orders), now)

C32_LoopSome(st, pending, now) ==
  /\ st.eligible # <<>> /\ pending # <<>>
  /\ C32_IterSome(st, pending, now, CombinatorialBids(st, pending, now))

\* a combinatorial call is about to run whose fallback passes over an IDLE courier of
\* capacity 0 and gives the order to an ACCRUING courier, re-planned with two orders
C32_Witness ==
  /\ CombinatorialCalled
  /\ C32_LoopSome(CombinatorialStart, pending_orders, current_time)

\* ---------------------------------------------------------------------- C33
\* courier d has been given orders since the entry of the call
C33_Committed(entry, st, d) == st.drivers[d] # entry.drivers[d]

\* a bid of a committed courier is built on what the latest commit left: the courier's
\* assigned orders then, and the distance of the route it was given as existing distance
C33_BidOk(entry, st, b) ==
  /\ b.driver \in Range(st.eligible)
  /\ st.drivers[b.driver].status # "DELIVERING"
  /\ Len(st.drivers[b.driver].assigned_orders) < st.drivers[b.driver].capacity
       \/ st.drivers[b.driver].status = "IDLE"
  /\ b.bundle.orders = st.drivers[b.driver].assigned_orders \o b.new_orders
  /\ \A i \in DOMAIN b.new_orders : ~Contains(st.assigned, b.new_orders[i])
  /\ C33_Committed(entry, st, b.driver) /\ b.bundle.route_sequence # <<>> =>
       /\ st.drivers[b.driver].status = "ACCRUING"
       /\ b.marginal = b.bundle.total_distance
                         - C21_RouteDistance(st.drivers[b.driver].current_loc, st.drivers[b.driver].route)

C33_BidsOk(entry, st, bids) == \A i \in DOMAIN bids : C33_BidOk(entry, st, bids[i])

RECURSIVE C33_SequentialOk(_, _, _, _)
C33_SequentialOk(entry, st, todo, now) ==
  IF todo = <<>> THEN C19_Returns(st)
  ELSE /\ ~Contains(st.assigned, Head(todo))
       /\ C33_BidsOk(entry, st, SequentialBids(st, Head(todo), now, 1, <<>>).bids)
       /\ C33_SequentialOk(entry, SequentialOrder(st, Head(todo), now), Tail(todo), now)

RECURSIVE C33_CombinatorialOk(_, _, _, _)
C33_AfterFallback(entry, fb, pending, now) ==
  fb.placed # <<>> => C33_CombinatorialOk(entry, fb, PendingAfterFallback(pending, fb.placed), now)

C33_IterOk(entry, st, pending, now, cb) ==
  /\ C33_BidsOk(entry, st, cb.bids)
  /\ IF cb.bids = <<>>
     THEN C33_AfterFallback(entry, FallbackPass(st, pending, now, cb), pending, now)
     ELSE C33_CombinatorialOk(entry, CommitPass(st, now, cb),
                              PendingAfterCommit(pending, cb.bids[GreedyPick(cb.bids)].new_orders), now)

C33_CombinatorialOk(entry, st, pending, now) ==
  /\ \A i \in DOMAIN pending : ~Contains(st.assigned, pending[i])
  /\ IF st.eligible = <<>> \/ pending = <<>>
     THEN C19_Returns(st)
     ELSE C33_IterOk(entry, st, pending, now, CombinatorialBids(st, pending, now))

C33_Step ==
  /\ SequentialCalled =>
       C33_SequentialOk(DispatchState(drivers, orders, current_time),
                        DispatchState(drivers, orders, current_time), pending_orders, current_time)
  /\ CombinatorialCalled =>
       C33_CombinatorialOk(CombinatorialStart, CombinatorialStart, pending_orders, current_time)

\* C33: within one sequential or combinatorial call every bid evaluated after a commit
\* is built on the committed courier's state of the latest commit (its assigned orders,
\* its status, and the distance of the route it was given as existing distance E), and
\* no order committed earlier in the call is offered again.
C33_BidsSeeCommits == [][C33_Step]_vars

\* a courier committed earlier in the call submits a finite bid
C33_Case(entry, st, bids) ==
  \E i \in DOMAIN bids : C33_Committed(entry, st, bids[i].driver) /\ bids[i].cost < INF

RECURSIVE C33_SequentialSome(_, _, _, _)
C33_SequentialSome(entry, st, todo, now) ==
  /\ todo # <<>>
  /\ \/ C33_Case(entry, st, SequentialBids(st, Head(todo), now, 1, <<>>).bids)
     \/ C33_SequentialSome(entry, SequentialOrder(st, Head(todo), now), Tail(todo), now)

RECURSIVE C33_CombinatorialSome(_, _, _, _)
C33_IterSome(entry, st, pending, now, cb) ==
  \/ C33_Case(entry, st, cb.bids)
  \/ /\ cb.bids # <<>>
     /\ C33_CombinatorialSome(entry, CommitPass(st, now, cb),
                              PendingAfterCommit(pending, cb.bids[GreedyPick(cb.bids)].new_orders), now)

C33_CombinatorialSome(entry, st, pending, now) ==
  /\ st.eligible # <<>> /\ pending # <<>>
  /\ C33_IterSome(entry, st, pending, now, CombinatorialBids(st, pending, now))

\* a sequential call is about to run in which a courier that was given an order earlier
\* in the call submits a finite bid for a later order
C33_Witness ==
  /\ SequentialCalled
  /\ C33_SequentialSome(DispatchState(drivers, orders, current_time),
                        DispatchState(drivers, orders, current_time), pending_orders, current_time)

\* the same in a combinatorial call: a courier committed in an earlier iteration submits
\* a finite bid in a later one
C33_WitnessCombinatorial ==
  /\ CombinatorialCalled
  /\ C33_CombinatorialSome(CombinatorialStart, CombinatorialStart, pending_orders, current_time)

\* ---------------------------------------------------------------------- C34
C34_Becomes(o, status) == orders'[o].status = status /\ orders[o].status # status

C34_Step ==
  \A o \in OrderIds :
    /\ orders'[o].pickup_time = IF C34_Becomes(o, "PICKED_UP") THEN current_time
                                ELSE orders[o].pickup_time
    /\ orders'[o].dropoff_time = IF C34_Becomes(o, "DELIVERED") THEN current_time
                                 ELSE orders[o].dropoff_time

C34_EndOfTick ==
  EndOfTick =>
    \A o \in OrderIds :
      /\ orders[o].status = "DELIVERED" =>
           /\ orders[o].pickup_time # NoTime
           /\ orders[o].dropoff_time # NoTime
           /\ orders[o].created_time <= orders[o].pickup_time
           /\ orders[o].pickup_time <= orders[o].dropoff_time
      /\ orders[o].status \in {"PENDING", "ASSIGNED"} => orders[o].dropoff_time = NoTime

\* C34: pickup_time is written exactly in the step in which an order becomes PICKED_UP
\* and dropoff_time exactly in the step in which it becomes DELIVERED, both with the
\* time of that tick; at the end of every tick every DELIVERED order has both stamps,
\* with created_time <= pickup_time <= dropoff_time, and no PENDING or ASSIGNED order
\* has a dropoff_time.
C34_Stamps == [][C34_Step]_vars /\ []C34_EndOfTick

\* at the end of a tick an order is DELIVERED that was picked up after its creation and
\* dropped off later still
C34_Witness ==
  /\ EndOfTick
  /\ \E o \in OrderIds :
       /\ orders[o].status = "DELIVERED"
       /\ orders[o].created_time < orders[o].pickup_time
       /\ orders[o].pickup_time < orders[o].dropoff_time

\* ---------------------------------------------------------------------- C35
\* the time at which a courier reaches the i-th stop of its route, i from its next stop
\* on: arrival_time_at_next_stop, then travel time plus SERVICE_TIME_MINS per stop
RECURSIVE C35_Eta(_, _)
C35_Eta(drv, i) ==
  IF i = drv.current_stop_index + 1 THEN drv.arrival_time_at_next_stop
  ELSE C35_Eta(drv, i - 1)
       + get_travel_time(drv.route[i - 1].location, drv.route[i].location) + SERVICE_TIME_MINS

\* every planned DROPOFF comes within the cutoff, and so did every delivery made
C35_OnTime(ds, os, done) ==
  /\ \A d \in DOMAIN ds :
       ds[d].status # "IDLE" =>
         \A i \in (ds[d].current_stop_index + 1)..Len(ds[d].route) :
           ds[d].route[i].stop_type = "DROPOFF" =>
             C35_Eta(ds[d], i) - os[ds[d].route[i].order_id].created_time <= MAX_DELIVERY_TIME_MINS
  /\ \A i \in DOMAIN done :
       done[i].delivered_time - done[i].created_time <= MAX_DELIVERY_TIME_MINS

\* the sequential call places an order through its fallback branch
RECURSIVE C35_SequentialFallback(_, _, _)
C35_SequentialFallbackNext(st, st2, todo, now) ==
  \/ BestBidIndex(SequentialBids(st, Head(todo), now, 1, <<>>).bids) = 0 /\ st2.assigned # st.assigned
  \/ C35_SequentialFallback(st2, Tail(todo), now)

C35_SequentialFallback(st, todo, now) ==
  /\ todo # <<>>
  /\ C35_SequentialFallbackNext(st, SequentialOrder(st, Head(todo), now), todo, now)

\* the dispatch call of this step, if any, places an order through a fallback branch
C35_FallbackTaken ==
  \/ SequentialCalled
       /\ C35_SequentialFallback(DispatchState(drivers, orders, current_time), pending_orders, current_time)
  \/ CombinatorialCalled /\ \E i \in DOMAIN C19_TraceNow : C19_TraceNow[i] = "fallback"

C35_Step ==
  /\ strategy # "baseline"
  /\ C35_OnTime(drivers, orders, completed_missions)
  /\ ~C35_FallbackTaken
  => C35_OnTime(drivers', orders', completed_missions')

C36_Assigned(o) == o \in DOMAIN orders /\ orders[o].status = "ASSIGNED"

C36_Delivered(o) == o \in DOMAIN orders /\ orders[o].status = "DELIVERED"

\* C36: while the tick loop keeps running, every order that becomes ASSIGNED is
\* eventually DELIVERED; a re-plan of its ACCRUING courier (next-stop index back to 0,
\* ETA recomputed from the last visited location) does not postpone it forever.
C36_EventuallyDelivered == \A o \in 1..NumOrders : C36_Assigned(o) ~> C36_Delivered(o)

\* an order was picked up before a second order was created, its courier then took the
\* second order onto its route as well (a re-plan with the first order on board), and
\* the first order has been delivered
C36_Witness ==
  /\ EndOfTick
  /\ \E i, j \in DOMAIN completed_missions :
       LET o == completed_missions[i].order_id
           o2 == completed_missions[j].order_id
       IN /\ completed_missions[i].driver_id = completed_missions[j].driver_id
          /\ orders[o].pickup_time < orders[o2].created_time
          /\ orders[o2].pickup_time < orders[o].dropoff_time
          /\ C36_Delivered(o)

\* ---------------------------------------------------------------------- C37
C37_PickedUp(o) == orders[o].pickup_time # NoTime

\* the stops a courier has still to visit
C37_Remaining(drv) ==
  {drv.route[i] : i \in {j \in DOMAIN drv.route : j > drv.current_stop_index}}

\* no courier has a PICKUP stop ahead for an order that has been picked up
C37_NoSecondPickup ==
  \A o \in OrderIds : \A d \in DriverIds :
    C37_PickedUp(o) /\ drivers[d].status # "IDLE"
      => ~\E stop \in C37_Remaining(drivers[d]) : stop.stop_type = "PICKUP" /\ stop.order_id = o

C37_Step ==
  \A o \in OrderIds : C37_PickedUp(o) => orders'[o].pickup_time = orders[o].pickup_time

\* C37: across ticks and re-plans, for couriers of any capacity, the PICKUP stop of an
\* order is consumed at most once: once an order is picked up no route of a courier
\* has a PICKUP stop for it ahead, and its pickup_time is never overwritten.
C37_PickedUpOnce == [][C37_Step]_vars /\ []C37_NoSecondPickup

\* ---------------------------------------------------------------------- C38
\* the route and the distance of a bid are those of a computation without the cache
\* (use_cache=False) from the courier's location for the bid's orders, in the order in
\* which the call passed them, and the courier's picked-up orders
C38_BidOk(st, b) ==
  b.bundle.route_sequence # <<>> =>
    /\ b.bundle.route_sequence
         = HeldKarpRoute(st.orders, st.drivers[b.driver].current_loc, b.bundle.orders,
                         AlreadyPickedUp(st.orders, st.drivers[b.driver])).route
    /\ b.bundle.total_distance
         = HeldKarpRoute(st.orders, st.drivers[b.driver].current_loc, b.bundle.orders,
                         AlreadyPickedUp(st.orders, st.drivers[b.driver])).total_distance

C38_BidsOk(st, bids) == \A i \in DOMAIN bids : C38_BidOk(st, bids[i])

RECURSIVE C38_SequentialOk(_, _, _)
C38_SequentialOk(st, todo, now) ==
  \/ todo = <<>>
  \/ /\ C38_BidsOk(st, SequentialBids(st, Head(todo), now, 1, <<>>).bids)
     /\ C38_SequentialOk(SequentialOrder(st, Head(todo), now), Tail(todo), now)

RECURSIVE C38_CombinatorialOk(_, _, _)
C38_AfterFallback(fb, pending, now) ==
  fb.placed # <<>> => C38_CombinatorialOk(fb, PendingAfterFallback(pending, fb.placed), now)

C38_IterOk(st, pending, now, cb) ==
  /\ C38_BidsOk(st, cb.bids)
  /\ IF cb.bids = <<>>
     THEN C38_AfterFallback(FallbackPass(st, pending, now, cb), pending, now)
     ELSE C38_CombinatorialOk(CommitPass(st, now, cb),
                              PendingAfterCommit(pending, cb.bids[GreedyPick(cb.bids)].new_orders), now)

C38_CombinatorialOk(st, pending, now) ==
  \/ st.eligible = <<>> \/ pending = <<>>
  \/ C38_IterOk(st, pending, now, CombinatorialBids(st, pending, now))

C38_Step ==
  /\ SequentialCalled =>
       C38_SequentialOk(DispatchState(drivers, orders, current_time), pending_orders, current_time)
  /\ CombinatorialCalled => C38_CombinatorialOk(CombinatorialStart, pending_orders, current_time)

\* C38: within a single dispatch call the TSP cache is transparent: for every courier,
\* find_optimal_route with the cache returns the same route and the same distance as a
\* computation without the cache from that courier's location for the same orders and
\* picked-up set.
C38_CacheTransparent == [][C38_Step]_vars

\* ---------------------------------------------------------------------- C39
\* a cost was asked for and the bid is feasible, with a marginal distance of at least 0
C39_FeasibleBid ==
  /\ call.fn = "calculate_trip_cost"
  /\ call.result # INF
  /\ call.bundle.total_distance - call.existing_route_distance >= 0

\* the cost of the same courier and bundle with a marginal distance larger by m
C39_Farther(m) ==
  calculate_trip_cost(call.os, call.driver, call.bundle, call.current_time, call.existing_route_distance - m)

\* the cost of the same courier and bundle asked for t minutes later, when no DROPOFF is
\* earlier and the total capped delay is not smaller
C39_Later(t) ==
  calculate_trip_cost(call.os, call.driver, call.bundle, call.current_time + t, call.existing_route_distance)

\* C39: for every feasible bid whose marginal distance is >= 0, for every bundle size
\* from 1 up to the courier's capacity, the cost of calculate_trip_cost is finite and
\* >= 0, and for a fixed courier and bundle size it does not decrease when the marginal
\* distance grows nor when the total capped delay grows.
C39_CostMonotone ==
  C39_FeasibleBid =>
    /\ Len(call.bundle.orders) <= call.driver.capacity
    /\ call.result >= 0 /\ call.result < INF
    /\ \A m \in 1..3 : C39_Farther(m) >= call.result
    /\ \A t \in 1..3 : C39_Later(t) >= call.result
====
